---- MODULE Spec2Model ----
(***************************************************************************)
(* Model of the env-file loader of src/src/Dotenv.ts: the line tokenizer   *)
(* (parseEnvFile), the value normalizer (processValue, unescapeString,     *)
(* coerceValue) and the load orchestrator (load, initialize, get).         *)
(*                                                                         *)
(* A JavaScript string is a sequence of one-character strings, so that     *)
(* trimming, searching, slicing and joining are computed, not assumed.     *)
(***************************************************************************)
EXTENDS Integers, Sequences, FiniteSets, TLC

\* ------------------------------------------------------------------ bounds
\* The longest file (in lines) the tokenizer specification feeds.
MaxLines == 4

\* The longest file of the coercion specification, in lines.
MaxValueLines == 2

\* The longest file of the block and quote specification, in lines.
MaxBlockLines == 3

\* ----------------------------------------------------------------- strings
\* The characters String.prototype.trim removes (those the model's alphabet has).
WhiteSpace == {" ", "\t", "\r"}

Digits == <<"0", "1", "2", "3", "4", "5", "6", "7", "8", "9">>

Min2(a, b) == IF a < b THEN a ELSE b

Max2(a, b) == IF a > b THEN a ELSE b

\* s.substring(from, to) with 0-based, end-exclusive indices clamped to the string.
Substring(s, from, to) ==
    LET f == Max2(0, Min2(from, Len(s)))
        t == Max2(0, Min2(to, Len(s)))
    IN  SubSeq(s, Min2(f, t) + 1, Max2(f, t))

\* s.substring(from)
SubstringFrom(s, from) == Substring(s, from, Len(s))

\* s.slice(from, -back): from a 0-based start to `back` characters before the end.
Slice(s, from, back) ==
    IF from >= Len(s) - back THEN <<>> ELSE SubSeq(s, from + 1, Len(s) - back)

StartsWith(s, p) == Len(s) >= Len(p) /\ SubSeq(s, 1, Len(p)) = p

EndsWith(s, p) == Len(s) >= Len(p) /\ SubSeq(s, Len(s) - Len(p) + 1, Len(s)) = p

\* A slip: the last occurrence instead of the first.
LastIndexOf(s, c) ==
    IF \E k \in 1..Len(s) : s[k] = c
    THEN (CHOOSE k \in 1..Len(s) : s[k] = c /\ \A j \in (k + 1)..Len(s) : s[j] # c) - 1
    ELSE -1

\* s.indexOf(c): the 0-based index of the first c, or -1.
IndexOf(s, c) ==
    IF \E k \in 1..Len(s) : s[k] = c
    THEN (CHOOSE k \in 1..Len(s) : s[k] = c /\ \A j \in 1..(k - 1) : s[j] # c) - 1
    ELSE -1

RECURSIVE TrimStart(_)
TrimStart(s) == IF s # <<>> /\ Head(s) \in WhiteSpace THEN TrimStart(Tail(s)) ELSE s

RECURSIVE TrimEnd(_)
TrimEnd(s) ==
    IF s # <<>> /\ s[Len(s)] \in WhiteSpace THEN TrimEnd(SubSeq(s, 1, Len(s) - 1)) ELSE s

\* s.trim()
Trim(s) == TrimEnd(TrimStart(s))

\* parts.join(sep)
RECURSIVE Join(_, _)
Join(parts, sep) ==
    IF parts = <<>> THEN <<>>
    ELSE IF Len(parts) = 1 THEN parts[1]
    ELSE parts[1] \o sep \o Join(Tail(parts), sep)

\* s.split(sep) for a one-character separator: always at least one part.
RECURSIVE Split(_, _)
Split(s, sep) ==
    LET k == IndexOf(s, sep)
    IN  IF k = -1 THEN <<s>>
        ELSE <<Substring(s, 0, k)>> \o Split(SubstringFrom(s, k + 1), sep)

\* s.toLowerCase() on the letters the coercion keywords use.
LowerChar(c) ==
    CASE c = "T" -> "t" [] c = "R" -> "r" [] c = "U" -> "u" [] c = "E" -> "e"
      [] c = "F" -> "f" [] c = "A" -> "a" [] c = "L" -> "l" [] c = "S" -> "s"
      [] c = "N" -> "n" [] OTHER -> c

ToLowerCase(s) == [k \in 1..Len(s) |-> LowerChar(s[k])]

Quote == "\""

TripleQuote == <<Quote, Quote, Quote>>

NewLine == <<"\n">>

\* --------------------------------------------------------- value normalizer
\* value.replace(/\\"/g, '"'): left to right, every backslash-quote pair becomes a quote.
RECURSIVE unescapeString(_)
unescapeString(value) ==
    IF value = <<>> THEN <<>>
    ELSE IF Len(value) >= 2 /\ value[1] = "\\" /\ value[2] = Quote
         THEN <<Quote>> \o unescapeString(SubstringFrom(value, 2))
         ELSE <<value[1]>> \o unescapeString(Tail(value))

\* A slip: an unquoted value is returned as written.
processValueNoTrim(value) ==
    IF StartsWith(value, TripleQuote) /\ EndsWith(value, TripleQuote)
    THEN unescapeString(Slice(value, 3, 3))
    ELSE IF StartsWith(value, <<Quote>>) /\ EndsWith(value, <<Quote>>)
         THEN unescapeString(Slice(value, 1, 1))
         ELSE value

\* A slip: the text between the quotes is trimmed as well.
processValueTrimsInner(value) ==
    IF StartsWith(value, TripleQuote) /\ EndsWith(value, TripleQuote)
    THEN unescapeString(Slice(value, 3, 3))
    ELSE IF StartsWith(value, <<Quote>>) /\ EndsWith(value, <<Quote>>)
         THEN Trim(unescapeString(Slice(value, 1, 1)))
         ELSE Trim(value)

processValue(value) ==
    IF StartsWith(value, TripleQuote) /\ EndsWith(value, TripleQuote)
    THEN unescapeString(Slice(value, 3, 3))
    ELSE IF StartsWith(value, <<Quote>>) /\ EndsWith(value, <<Quote>>)
         THEN unescapeString(Slice(value, 1, 1))
         ELSE Trim(value)

\* Some quote of the line is at index 0 or is not preceded by a backslash.
hasClosingQuote(line) ==
    \E k \in 1..Len(line) : line[k] = Quote /\ (k = 1 \/ line[k - 1] # "\\")

hasClosingTripleQuotes(line) == EndsWith(Trim(line), TripleQuote)

\* ---------------------------------------------------------------- coercion
\* Values: a string, or what coerceValue makes of one.
StrVal(s) == [t |-> "string", v |-> s]

BoolVal(b) == [t |-> "boolean", v |-> b]

NullVal == [t |-> "null", v |-> <<>>]

NumVal(n) == [t |-> "number", v |-> n]

ArrayVal(ns) == [t |-> "array", v |-> ns]

ObjectVal == [t |-> "object", v |-> <<>>]

IsDigit(c) == \E d \in 1..10 : Digits[d] = c

DigitValue(c) == (CHOOSE d \in 1..10 : Digits[d] = c) - 1

\* The finite numeric literals the model's files can spell: decimal integers
\* with an optional sign.
IsNumeral(s) ==
    LET body == IF s # <<>> /\ s[1] \in {"-", "+"} THEN Tail(s) ELSE s
    IN  body # <<>> /\ \A k \in 1..Len(body) : IsDigit(body[k])

RECURSIVE DigitsToNat(_)
DigitsToNat(s) ==
    IF s = <<>> THEN 0 ELSE 10 * DigitsToNat(SubSeq(s, 1, Len(s) - 1)) + DigitValue(s[Len(s)])

\* Number(s) for a numeral s.
NumberOf(s) ==
    IF s[1] = "-" THEN 0 - DigitsToNat(Tail(s))
    ELSE IF s[1] = "+" THEN DigitsToNat(Tail(s))
    ELSE DigitsToNat(s)

RECURSIVE NatToString(_)
NatToString(n) ==
    IF n < 10 THEN <<Digits[n + 1]>> ELSE NatToString(n \div 10) \o <<Digits[(n % 10) + 1]>>

\* String(n) for an integer n.
NumberToString(n) == IF n < 0 THEN <<"-">> \o NatToString(0 - n) ELSE NatToString(n)

InfinityLiteral == <<"I", "n", "f", "i", "n", "i", "t", "y">>

\* The numbers that are not integers: Infinity, -Infinity and NaN.
InfinityVal(sign) == [t |-> "number", v |-> sign, infinite |-> TRUE]

NaN == [t |-> "number", v |-> 0, nan |-> TRUE]

isNaN(num) == "nan" \in DOMAIN num

\* Number(s) for a text without surrounding whitespace: the empty text is 0, a
\* numeral its value, the Infinity literal with an optional sign an infinity,
\* any other text over the model's alphabet NaN.
Number(s) ==
    IF s = <<>> THEN NumVal(0)
    ELSE IF IsNumeral(s) THEN NumVal(NumberOf(s))
    ELSE IF s = InfinityLiteral \/ s = <<"+">> \o InfinityLiteral THEN InfinityVal(1)
    ELSE IF s = <<"-">> \o InfinityLiteral THEN InfinityVal(-1)
    ELSE NaN

\* A JSON number token of the integer subset: no sign but '-', no leading zero.
IsJsonInt(s) ==
    LET body == IF s # <<>> /\ s[1] = "-" THEN Tail(s) ELSE s
    IN  /\ body # <<>>
        /\ \A k \in 1..Len(body) : IsDigit(body[k])
        /\ (Len(body) > 1 => body[1] # "0")

JsonWhiteSpace == {" ", "\t", "\r", "\n"}

RECURSIVE JsonTrimStart(_)
JsonTrimStart(s) ==
    IF s # <<>> /\ Head(s) \in JsonWhiteSpace THEN JsonTrimStart(Tail(s)) ELSE s

RECURSIVE JsonTrimEnd(_)
JsonTrimEnd(s) ==
    IF s # <<>> /\ s[Len(s)] \in JsonWhiteSpace
    THEN JsonTrimEnd(SubSeq(s, 1, Len(s) - 1)) ELSE s

JsonTrim(s) == JsonTrimEnd(JsonTrimStart(s))

\* An object with members: the keys in insertion order, each with its last value.
ObjectOf(members) == [t |-> "object", v |-> members]

\* A member '"key": integer' of a JSON object; <<ok, key, number>>.
JsonMember(text) ==
    LET m == JsonTrim(text)
        closing == IF Len(m) >= 2 /\ m[1] = Quote THEN IndexOf(Tail(m), Quote) ELSE -1
        key == SubSeq(m, 2, closing + 1)
        rest == JsonTrim(SubSeq(m, closing + 3, Len(m)))
        number == JsonTrim(Tail(rest))
    IN  IF /\ closing >= 0
           /\ \A k \in 1..Len(key) : key[k] \notin {"\\", "\n", "\t", "\r"}
           /\ rest # <<>>
           /\ rest[1] = ":"
           /\ IsJsonInt(number)
        THEN <<TRUE, key, NumberOf(number)>>
        ELSE <<FALSE, <<>>, 0>>

\* The properties of the parsed object: a repeated key keeps its first position
\* and its last value.
RECURSIVE JsonProperties(_, _)
JsonProperties(members, k) ==
    IF k > Len(members) THEN <<>>
    ELSE LET key == members[k][2]
             last == CHOOSE j \in k..Len(members) :
                         /\ members[j][2] = key
                         /\ \A i \in (j + 1)..Len(members) : members[i][2] # key
         IN  IF \E j \in 1..(k - 1) : members[j][2] = key
             THEN JsonProperties(members, k + 1)
             ELSE <<<<key, members[last][3]>>>> \o JsonProperties(members, k + 1)

\* JSON.parse on the texts the model's files can spell that start with '[' or '{':
\* arrays of integers and objects whose members are '"key": integer';
\* <<ok, value>>. Any other such text over the model's alphabet is a SyntaxError
\* (ok = FALSE).
JsonParse(text) ==
    LET s == JsonTrim(text)
        inner == JsonTrim(Slice(s, 1, 1))
        items == Split(inner, ",")
        members == [k \in 1..Len(items) |-> JsonMember(items[k])]
    IN  IF Len(s) >= 2 /\ s[1] = "{" /\ s[Len(s)] = "}"
        THEN IF inner = <<>> THEN <<TRUE, ObjectVal>>
             ELSE IF \A k \in 1..Len(members) : members[k][1]
                  THEN <<TRUE, ObjectOf(JsonProperties(members, 1))>>
                  ELSE <<FALSE, NullVal>>
        ELSE IF Len(s) >= 2 /\ s[1] = "[" /\ s[Len(s)] = "]"
        THEN IF inner = <<>> THEN <<TRUE, ArrayVal(<<>>)>>
             ELSE IF \A k \in 1..Len(items) : IsJsonInt(JsonTrim(items[k]))
                  THEN <<TRUE, ArrayVal([k \in 1..Len(items) |-> NumberOf(JsonTrim(items[k]))])>>
                  ELSE <<FALSE, NullVal>>
        ELSE <<FALSE, NullVal>>

\* A slip: the guard against the empty string is missing, so Number("") = 0 is
\* taken for a number.
coerceValueEmptyIsZero(value) ==
    LET trimmed == Trim(value)
        json == JsonParse(trimmed)
    IN  IF (StartsWith(trimmed, <<"{">>) \/ StartsWith(trimmed, <<"[">>)) /\ json[1]
        THEN json[2]
        ELSE IF ToLowerCase(trimmed) = <<"t", "r", "u", "e">> THEN BoolVal(TRUE)
        ELSE IF ToLowerCase(trimmed) = <<"f", "a", "l", "s", "e">> THEN BoolVal(FALSE)
        ELSE IF ToLowerCase(trimmed) = <<"n", "u", "l", "l">> THEN NullVal
        ELSE IF ~isNaN(Number(trimmed)) THEN Number(trimmed)
        ELSE StrVal(value)

\* A slip: a SyntaxError of JSON.parse is not caught and the value is lost.
coerceValueNoCatch(value) ==
    LET trimmed == Trim(value)
        json == JsonParse(trimmed)
    IN  IF StartsWith(trimmed, <<"{">>) \/ StartsWith(trimmed, <<"[">>)
        THEN json[2]
        ELSE IF ToLowerCase(trimmed) = <<"t", "r", "u", "e">> THEN BoolVal(TRUE)
        ELSE IF ToLowerCase(trimmed) = <<"f", "a", "l", "s", "e">> THEN BoolVal(FALSE)
        ELSE IF ToLowerCase(trimmed) = <<"n", "u", "l", "l">> THEN NullVal
        ELSE IF ~isNaN(Number(trimmed)) /\ trimmed # <<>> THEN Number(trimmed)
        ELSE StrVal(value)

coerceValue(value) ==
    LET trimmed == Trim(value)
        json == JsonParse(trimmed)
    IN  IF (StartsWith(trimmed, <<"{">>) \/ StartsWith(trimmed, <<"[">>)) /\ json[1]
        THEN json[2]
        ELSE IF ToLowerCase(trimmed) = <<"t", "r", "u", "e">> THEN BoolVal(TRUE)
        ELSE IF ToLowerCase(trimmed) = <<"f", "a", "l", "s", "e">> THEN BoolVal(FALSE)
        ELSE IF ToLowerCase(trimmed) = <<"n", "u", "l", "l">> THEN NullVal
        ELSE IF ~isNaN(Number(trimmed)) /\ trimmed # <<>> THEN Number(trimmed)
        ELSE StrVal(value)

\* String(value), as load applies it before writing process.env.
StringOf(value) ==
    CASE value.t = "string" -> value.v
      [] value.t = "boolean" ->
            IF value.v THEN <<"t", "r", "u", "e">> ELSE <<"f", "a", "l", "s", "e">>
      [] value.t = "null" -> <<"n", "u", "l", "l">>
      [] value.t = "number" ->
            IF "infinite" \in DOMAIN value
            THEN IF value.v < 0 THEN <<"-">> \o InfinityLiteral ELSE InfinityLiteral
            ELSE NumberToString(value.v)
      [] value.t = "array" ->
            Join([k \in 1..Len(value.v) |-> NumberToString(value.v[k])], <<",">>)
      [] OTHER ->
            <<"[", "o", "b", "j", "e", "c", "t", " ", "O", "b", "j", "e", "c", "t", "]">>

\* --------------------------------------------------------------- tokenizer
\* currentKey is null before the first key line.
NULL == <<"null-reference">>

\* `undefined` where a list of names is expected (no name is spelt this way).
Undefined == <<<<"undefined">>>>

\* The configure/load call has not settled.
Pending == [status |-> "pending", value |-> <<>>]

\* A slip: only the empty string is tested, so null counts as a key.
TruthyNotEmpty(key) == key # <<>>

\* JavaScript truthiness of currentKey: neither null nor the empty string.
Truthy(key) == key # NULL /\ key # <<>>

\* The tokenizer's locals at the top of a loop iteration.
ParserInit ==
    [currentKey |-> NULL, currentValue |-> <<>>, inMultiline |-> FALSE,
     wasMultiline |-> FALSE, envVars |-> <<>>]

\* obj[key] = value on a plain object: the binding is added or overwritten.
SetKey(obj, key, value) ==
    [k \in (DOMAIN obj) \cup {key} |-> IF k = key THEN value ELSE obj[k]]

\* "Save previous key-value pair if exists" and "Save the last key-value pair".
\* A slip: the coercion flag is not consulted.
SavePendingAlwaysCoerce(p, coerce) ==
    IF Truthy(p.currentKey) /\ Len(p.currentValue) > 0
    THEN LET joined == Join(p.currentValue, NewLine)
             rawValue == IF p.wasMultiline THEN unescapeString(joined)
                         ELSE processValue(joined)
         IN  SetKey(p.envVars, p.currentKey, coerceValue(rawValue))
    ELSE p.envVars

\* A slip: a block value is normalized like a one-line value.
SavePendingBlockNormalized(p, coerce) ==
    IF Truthy(p.currentKey) /\ Len(p.currentValue) > 0
    THEN LET joined == Join(p.currentValue, NewLine)
             rawValue == processValue(joined)
         IN  SetKey(p.envVars, p.currentKey,
                    IF coerce THEN coerceValue(rawValue) ELSE StrVal(rawValue))
    ELSE p.envVars

\* A slip: a block value is never coerced.
SavePendingBlockNotCoerced(p, coerce) ==
    IF Truthy(p.currentKey) /\ Len(p.currentValue) > 0
    THEN LET joined == Join(p.currentValue, NewLine)
             rawValue == IF p.wasMultiline THEN unescapeString(joined)
                         ELSE processValue(joined)
         IN  SetKey(p.envVars, p.currentKey,
                    IF coerce /\ ~p.wasMultiline THEN coerceValue(rawValue)
                    ELSE StrVal(rawValue))
    ELSE p.envVars

SavePending(p, coerce) ==
    IF Truthy(p.currentKey) /\ Len(p.currentValue) > 0
    THEN LET joined == Join(p.currentValue, NewLine)
             rawValue == IF p.wasMultiline THEN unescapeString(joined)
                         ELSE processValue(joined)
         IN  SetKey(p.envVars, p.currentKey,
                    IF coerce THEN coerceValue(rawValue) ELSE StrVal(rawValue))
    ELSE p.envVars

\* A slip: the comment test on the line as written, not on the trimmed line.
BranchNoTrim(p, line) ==
    LET trimmedLine == Trim(line)
    IN  IF StartsWith(line, <<"#">>) THEN "comment"
        ELSE IF trimmedLine = <<>> /\ ~p.inMultiline THEN "blank"
        ELSE IF IndexOf(line, "=") # -1 /\ ~p.inMultiline THEN "key"
        ELSE IF p.inMultiline /\ Truthy(p.currentKey) THEN "block"
        ELSE IF Truthy(p.currentKey) THEN "continuation"
        ELSE "dropped"

\* A slip: a line with '=' starts a key also inside a block.
BranchKeyInsideBlock(p, line) ==
    LET trimmedLine == Trim(line)
    IN  IF StartsWith(trimmedLine, <<"#">>) THEN "comment"
        ELSE IF trimmedLine = <<>> /\ ~p.inMultiline THEN "blank"
        ELSE IF IndexOf(line, "=") # -1 THEN "key"
        ELSE IF p.inMultiline /\ Truthy(p.currentKey) THEN "block"
        ELSE IF Truthy(p.currentKey) THEN "continuation"
        ELSE "dropped"

\* The branch of the loop body a line takes, by the code's tests in their order.
Branch(p, line) ==
    LET trimmedLine == Trim(line)
    IN  IF StartsWith(trimmedLine, <<"#">>) THEN "comment"
        ELSE IF trimmedLine = <<>> /\ ~p.inMultiline THEN "blank"
        ELSE IF IndexOf(line, "=") # -1 /\ ~p.inMultiline THEN "key"
        ELSE IF p.inMultiline /\ Truthy(p.currentKey) THEN "block"
        ELSE IF Truthy(p.currentKey) THEN "continuation"
        ELSE "dropped"

\* A slip: the text after '=' is trimmed before the quotes are looked for.
StartKeyValueTrimmed(p, line, coerce) ==
    LET equalsIndex == IndexOf(line, "=")
        valueStart == Trim(SubstringFrom(line, equalsIndex + 1))
        afterQuotes == SubstringFrom(valueStart, 3)
        saved == SavePending(p, coerce)
        key == Trim(Substring(line, 0, equalsIndex))
    IN  IF StartsWith(valueStart, TripleQuote)
        THEN [currentKey |-> key,
              currentValue |-> IF afterQuotes # <<>> THEN <<afterQuotes>> ELSE <<>>,
              inMultiline |-> TRUE, wasMultiline |-> TRUE, envVars |-> saved]
        ELSE [currentKey |-> key, currentValue |-> <<valueStart>>,
              inMultiline |-> FALSE, wasMultiline |-> FALSE, envVars |-> saved]

\* A slip: the text before '=' is the key as written, not trimmed.
StartKeyKeyUntrimmed(p, line, coerce) ==
    LET equalsIndex == IndexOf(line, "=")
        valueStart == SubstringFrom(line, equalsIndex + 1)
        afterQuotes == SubstringFrom(valueStart, 3)
        saved == SavePending(p, coerce)
        key == Substring(line, 0, equalsIndex)
    IN  IF StartsWith(valueStart, TripleQuote)
        THEN [currentKey |-> key,
              currentValue |-> IF afterQuotes # <<>> THEN <<afterQuotes>> ELSE <<>>,
              inMultiline |-> TRUE, wasMultiline |-> TRUE, envVars |-> saved]
        ELSE [currentKey |-> key, currentValue |-> <<valueStart>>,
              inMultiline |-> FALSE, wasMultiline |-> FALSE, envVars |-> saved]

\* "Start new key-value pair".
StartKey(p, line, coerce) ==
    LET equalsIndex == IndexOf(line, "=")
        valueStart == SubstringFrom(line, equalsIndex + 1)
        afterQuotes == SubstringFrom(valueStart, 3)
        saved == SavePending(p, coerce)
        key == Trim(Substring(line, 0, equalsIndex))
    IN  IF StartsWith(valueStart, TripleQuote)
        THEN [currentKey |-> key,
              currentValue |-> IF afterQuotes # <<>> THEN <<afterQuotes>> ELSE <<>>,
              inMultiline |-> TRUE, wasMultiline |-> TRUE, envVars |-> saved]
        ELSE IF StartsWith(valueStart, <<Quote>>)
        THEN IF hasClosingQuote(valueStart)
             THEN [currentKey |-> key, currentValue |-> <<valueStart>>,
                   inMultiline |-> FALSE, wasMultiline |-> FALSE, envVars |-> saved]
             ELSE [currentKey |-> key, currentValue |-> <<valueStart>>,
                   inMultiline |-> FALSE, wasMultiline |-> FALSE, envVars |-> saved]
        ELSE [currentKey |-> key, currentValue |-> <<valueStart>>,
              inMultiline |-> FALSE, wasMultiline |-> FALSE, envVars |-> saved]

\* "Continue multi-line value".
ContinueBlock(p, line) ==
    LET pushed == Append(p.currentValue, line)
        lastLine == pushed[Len(pushed)]
    IN  IF hasClosingTripleQuotes(lastLine)
        THEN [p EXCEPT !.currentValue =
                         [pushed EXCEPT ![Len(pushed)] =
                            Substring(lastLine, 0, Len(lastLine) - 3)],
                       !.inMultiline = FALSE]
        ELSE [p EXCEPT !.currentValue = pushed]

\* A slip: the continuation line is trimmed before it is pushed.
ContinueValueTrimmed(p, line) == [p EXCEPT !.currentValue = Append(p.currentValue, Trim(line))]

\* "Continue single-line value (indented continuation)".
ContinueValue(p, line) == [p EXCEPT !.currentValue = Append(p.currentValue, line)]

\* The body of the for loop for one line.
ParseLine(p, line, coerce) ==
    LET branch == Branch(p, line)
    IN  CASE branch = "key" -> StartKey(p, line, coerce)
          [] branch = "block" -> ContinueBlock(p, line)
          [] branch = "continuation" -> ContinueValue(p, line)
          [] OTHER -> p

RECURSIVE ParseLines(_, _, _)
ParseLines(p, lines, coerce) ==
    IF lines = <<>> THEN p
    ELSE ParseLines(ParseLine(p, Head(lines), coerce), Tail(lines), coerce)

\* parseEnvFile(content), the content given as its lines (content.split("\n")).
parseEnvFile(lines, coerce) == SavePending(ParseLines(ParserInit, lines, coerce), coerce)

\* ------------------------------------------------------------------- state
VARIABLES
    \* parseEnvFile: the lines consumed so far, the locals, and where it is
    lines, currentKey, currentValue, inMultiline, wasMultiline, envVars, ppc,
    \* history: the branch of the loop body each consumed line took
    branches,
    \* the Dotenv instance and the process
    coerceValues, parsedValues, processEnv,
    \* one configure/load call: its options, the files on disk, where it is, the
    \* loop index, the profile list, the reads not yet settled
    options, fileSystem, pc, idx, profiles, inFlight,
    \* history: the reads started, the logger's events, the ParseResults merged,
    \* the PROFILES value as read, how the call ended, the later load() calls
    reads, log, loaded, selector, outcome, extraLoads

parserVars ==
    <<lines, currentKey, currentValue, inMultiline, wasMultiline, envVars, ppc, branches>>

sessionVars ==
    <<parsedValues, processEnv, options, fileSystem, pc, idx, profiles, inFlight,
      reads, log, loaded, selector, outcome, extraLoads>>

vars == <<parserVars, coerceValues, sessionVars>>

\* The tokenizer's locals as one record.
Parser ==
    [currentKey |-> currentKey, currentValue |-> currentValue,
     inMultiline |-> inMultiline, wasMultiline |-> wasMultiline, envVars |-> envVars]

SetParser(p) ==
    /\ currentKey' = p.currentKey
    /\ currentValue' = p.currentValue
    /\ inMultiline' = p.inMultiline
    /\ wasMultiline' = p.wasMultiline
    /\ envVars' = p.envVars

ParserIdle ==
    /\ lines = <<>>
    /\ branches = <<>>
    /\ currentKey = NULL
    /\ currentValue = <<>>
    /\ inMultiline = FALSE
    /\ wasMultiline = FALSE
    /\ envVars = <<>>

SessionIdle ==
    /\ parsedValues = <<>>
    /\ processEnv = <<>>
    /\ options = [entry |-> "configure", hasFilepaths |-> FALSE, filepaths |-> <<>>,
                  hasSchema |-> FALSE, schema |-> {}]
    /\ fileSystem = <<>>
    /\ pc = "idle"
    /\ idx = 0
    /\ profiles = Undefined
    /\ inFlight = {}
    /\ reads = <<>>
    /\ log = <<>>
    /\ loaded = <<>>
    /\ selector = NULL
    /\ outcome = Pending
    /\ extraLoads = 0

\* ------------------------------------------- the tokenizer, line by line
\* The lines the tokenizer specification feeds, one per loop iteration.
BlockOpen == <<"K", "=", Quote, Quote, Quote>>

BlockClose == TripleQuote

LineSet ==
    { BlockOpen,
      BlockClose,
      <<"a">>,
      <<" ", "b", " ">>,
      <<"#", "c">>,
      <<" ", "#", "c", "=", "d">>,
      <<>>,
      <<" ">>,
      <<" ", "K", " ", "=", " ", "v", " ">>,
      <<"J", "=", "a", "=", "b">> }

ParseInit ==
    /\ ParserIdle
    /\ ppc = "loop"
    /\ coerceValues = FALSE
    /\ SessionIdle

\* One iteration of the for loop on the next line of the file.
Iterate(line) ==
    /\ ppc = "loop"
    /\ Len(lines) < MaxLines
    /\ lines' = Append(lines, line)
    /\ branches' = Append(branches, Branch(Parser, line))
    /\ SetParser(ParseLine(Parser, line, coerceValues))
    /\ UNCHANGED <<ppc, coerceValues, sessionVars>>

SkipComment == \E line \in LineSet : Branch(Parser, line) = "comment" /\ Iterate(line)

SkipBlank == \E line \in LineSet : Branch(Parser, line) = "blank" /\ Iterate(line)

KeyLine == \E line \in LineSet : Branch(Parser, line) = "key" /\ Iterate(line)

BlockLine == \E line \in LineSet : Branch(Parser, line) = "block" /\ Iterate(line)

ContinuationLine == \E line \in LineSet : Branch(Parser, line) = "continuation" /\ Iterate(line)

DroppedLine == \E line \in LineSet : Branch(Parser, line) = "dropped" /\ Iterate(line)

\* The end of the input: the pending pair is saved and envVars returned.
EndOfInput ==
    /\ ppc = "loop"
    /\ envVars' = SavePending(Parser, coerceValues)
    /\ ppc' = "returned"
    /\ UNCHANGED <<lines, branches, currentKey, currentValue, inMultiline, wasMultiline,
                   coerceValues, sessionVars>>

ParseNext ==
    \/ SkipComment
    \/ SkipBlank
    \/ KeyLine
    \/ BlockLine
    \/ ContinuationLine
    \/ DroppedLine
    \/ EndOfInput

SpecParse == ParseInit /\ [][ParseNext]_vars

\* ----------------------------------------- parseEnvFile on blocks and quotes
\* Lines that open, fill and close blocks and quoted values.
QuoteLineSet ==
    { <<"K", "=", Quote, Quote, Quote>>,
      <<"K", "=", Quote, Quote, Quote, "a">>,
      <<"=", Quote, Quote, Quote>>,
      <<Quote, Quote, Quote>>,
      <<"b", Quote, Quote, Quote>>,
      <<"b", Quote, Quote, Quote, " ">>,
      <<"K", "=", Quote, Quote, Quote, "t", Quote, Quote, Quote>>,
      <<"J", "=", "v">>,
      <<>>,
      <<"c">>,
      <<" ", "d", " ">>,
      <<"#", "c">>,
      <<"K", "=", Quote, "a">>,
      <<"b", Quote>>,
      <<"K", "=", Quote, "a", "\\", "\\", "b", Quote>>,
      <<"K", "=", Quote, "a", "\\", Quote, "b", Quote>>,
      <<"x", "\\", "\\", "y">> }

\* One iteration of the for loop, by the branch the line takes.
OnComment ==
    \E line \in QuoteLineSet :
        /\ Len(lines) < MaxBlockLines
        /\ Branch(Parser, line) = "comment"
        /\ Iterate(line)

OnBlank ==
    \E line \in QuoteLineSet :
        /\ Len(lines) < MaxBlockLines
        /\ Branch(Parser, line) = "blank"
        /\ Iterate(line)

OnKey ==
    \E line \in QuoteLineSet :
        /\ Len(lines) < MaxBlockLines
        /\ Branch(Parser, line) = "key"
        /\ Iterate(line)

OnBlock ==
    \E line \in QuoteLineSet :
        /\ Len(lines) < MaxBlockLines
        /\ Branch(Parser, line) = "block"
        /\ Iterate(line)

OnContinuation ==
    \E line \in QuoteLineSet :
        /\ Len(lines) < MaxBlockLines
        /\ Branch(Parser, line) = "continuation"
        /\ Iterate(line)

OnDropped ==
    \E line \in QuoteLineSet :
        /\ Len(lines) < MaxBlockLines
        /\ Branch(Parser, line) = "dropped"
        /\ Iterate(line)

BlockNext ==
    \/ OnComment
    \/ OnBlank
    \/ OnKey
    \/ OnBlock
    \/ OnContinuation
    \/ OnDropped
    \/ EndOfInput

SpecBlock == ParseInit /\ [][BlockNext]_vars

\* ------------------------------------------------- parseEnvFile with coercion
\* The value texts of the statements K=<text> fed to a coercing parse.
ValueTexts ==
    { <<"3", "0", "0", "0">>,
      <<"-", "7">>,
      <<"0", "1", "0">>,
      <<"t", "r", "u", "e">>,
      <<"T", "R", "U", "E">>,
      <<"F", "a", "l", "s", "e">>,
      <<"n", "u", "l", "l">>,
      <<"N", "u", "l", "l">>,
      <<"{", Quote, "a", Quote, ":", "1", "}">>,
      <<"{", "}">>,
      <<"[", "1", ",", " ", "2", "]">>,
      <<"{", "a", ":", " ", "}">>,
      <<"{", Quote, "a", Quote, ":", "1", ",", "}">>,
      <<"[", "1", ",">>,
      <<"h", "e", "l", "l", "o">>,
      <<>>,
      <<"1", "2", "a", "b", "c">>,
      <<Quote, " ", "4", "2", " ", Quote>>,
      <<Quote, " ", "n", "o", " ", Quote>>,
      <<Quote, "t", "r", "u", "e", Quote>>,
      <<Quote, " ", Quote>>,
      InfinityLiteral,
      <<"-">> \o InfinityLiteral,
      <<"+", "5">> }

ValueLines == { <<"K", "=">> \o text : text \in ValueTexts }

CoerceInit ==
    /\ ParserIdle
    /\ ppc = "loop"
    /\ coerceValues = TRUE
    /\ SessionIdle

\* One iteration of the for loop on a statement line, coercion enabled.
CoerceKeyLine ==
    \E line \in ValueLines :
        /\ Len(lines) < MaxValueLines
        /\ Branch(Parser, line) = "key"
        /\ Iterate(line)

CoerceNext ==
    \/ CoerceKeyLine
    \/ EndOfInput

SpecCoerce == CoerceInit /\ [][CoerceNext]_vars

\* ------------------------------------------------------ the orchestrator
\* The explicit paths one call may name (bound on options.filepaths).
MaxFiles == 2

\* The load() calls made on the instance after configure returned.
MaxExtraLoads == 1

EnvPath == <<".", "e", "n", "v">>

PathB == <<"b">>

\* `.env.${profile}`
ProfilePath(profile) == EnvPath \o <<".">> \o profile

\* filepath ?? ".env"
PathOf(filepath) == IF filepath = NULL THEN EnvPath ELSE filepath

ProfilesKey == <<"P", "R", "O", "F", "I", "L", "E", "S">>

\* A slip: the entries are not trimmed.
ProfileNamesUntrimmed(env) ==
    IF ProfilesKey \notin DOMAIN env THEN Undefined
    ELSE SelectSeq(Split(env[ProfilesKey], ","), LAMBDA profile : Len(profile) > 0)

\* process.env.PROFILES?.split(",").map(trim).filter(nonempty); undefined when unset.
ProfileNames(env) ==
    IF ProfilesKey \notin DOMAIN env THEN Undefined
    ELSE LET parts == Split(env[ProfilesKey], ",")
             trimmed == [k \in 1..Len(parts) |-> Trim(parts[k])]
         IN  SelectSeq(trimmed, LAMBDA profile : Len(profile) > 0)

\* `profiles && profiles.length > 0`
HasProfiles(names) == names # Undefined /\ Len(names) > 0

\* A slip: '.env' is loaded when no filepaths are given.
FilepathsDefaultEnv == IF options.hasFilepaths THEN options.filepaths ELSE <<EnvPath>>

\* The for loop over options.filepaths runs only when the option is given.
Filepaths == IF options.hasFilepaths THEN options.filepaths ELSE <<>>

\* A slip: the loads are started without being awaited.
NotAwaited == TRUE

\* `await this.load(...)`: the loop goes on only when the load it started has settled.
Awaited == inFlight = {}

\* A slip: a key already bound keeps its value.
MergeEnvFirstWins(env, result) ==
    [k \in (DOMAIN env) \cup (DOMAIN result) |->
        IF k \in DOMAIN env THEN env[k] ELSE StringOf(result[k])]

MergeParsedFirstWins(parsed, result) ==
    [k \in (DOMAIN parsed) \cup (DOMAIN result) |->
        IF k \in DOMAIN parsed THEN parsed[k] ELSE result[k]]

\* A slip: the store is replaced by the file's bindings.
MergeEnvReplace(env, result) == [k \in DOMAIN result |-> StringOf(result[k])]

\* for (const [key, value] of Object.entries(envVars)): the new bindings win.
MergeEnv(env, result) ==
    [k \in (DOMAIN env) \cup (DOMAIN result) |->
        IF k \in DOMAIN result THEN StringOf(result[k]) ELSE env[k]]

MergeParsed(parsed, result) ==
    [k \in (DOMAIN parsed) \cup (DOMAIN result) |->
        IF k \in DOMAIN result THEN result[k] ELSE parsed[k]]

Info(msg) == [level |-> "info", msg |-> msg]

Error(msg) == [level |-> "error", msg |-> msg]

LoadingMsg(path) == <<"Loading environment variables from ", path>>

\* A slip: the read is issued without the info event.
StartLoadSilent(path, phase, logNow) ==
    /\ log' = logNow
    /\ reads' = Append(reads, [path |-> path, phase |-> phase])
    /\ inFlight' = inFlight \cup {Len(reads) + 1}

\* load(filepath) up to its await: the info event, then the read is issued.
StartLoad(path, phase, logNow) ==
    /\ log' = Append(logNow, Info(LoadingMsg(path)))
    /\ reads' = Append(reads, [path |-> path, phase |-> phase])
    /\ inFlight' = inFlight \cup {Len(reads) + 1}

\* The keys of the schemas' shapes, in the order the object schemas declare them.
ShapeOrder == <<<<"K">>, <<"J">>>>

\* The message of the issue Zod reports for a required key that is missing.
RequiredMessage == "Required"

\* schema.safeParse(envData) for an object schema that requires a set of keys:
\* one issue per missing key, in the order of the shape.
SafeParse(schema, envData) ==
    LET missing == SelectSeq(ShapeOrder, LAMBDA key : key \in schema /\ key \notin DOMAIN envData)
    IN  [success |-> schema \subseteq DOMAIN envData,
         data |-> [k \in schema \cap DOMAIN envData |-> envData[k]],
         issues |-> [k \in 1..Len(missing) |->
                        [path |-> <<missing[k]>>, message |-> RequiredMessage]]]

\* A slip: only the first issue is rendered.
toPrettyZodErrorsFirstOnly(issues) ==
    IF issues = <<>> THEN <<>>
    ELSE <<Join(issues[1].path, <<".">>) \o <<": ", issues[1].message>>>>

\* issues.map(issue => `${issue.path.join(".")}: ${issue.message}`)
toPrettyZodErrors(issues) ==
    [k \in 1..Len(issues) |-> Join(issues[k].path, <<".">>) \o <<": ", issues[k].message>>]

\* error.message of a ZodError: the library's indented JSON rendering of the
\* issues, several lines long; the fields of an issue are kept as tokens.
ZodErrorMessage(issues) ==
    <<"[", "\n">>
        \o Join([k \in 1..Len(issues) |->
                    <<"{", "\n", "path: ">> \o Join(issues[k].path, <<",">>)
                        \o <<"\n", "message: ", issues[k].message, "\n", "}">>],
                <<",", "\n">>)
        \o <<"\n", "]">>

\* `Zod validation error: ${error.message}\n${toPrettyZodErrors(error).join("\n")}`
toPrettyZodError(issues) ==
    <<"Zod validation error: ">> \o ZodErrorMessage(issues) \o <<"\n">>
        \o Join(toPrettyZodErrors(issues), <<"\n">>)

\* A slip: process.env is validated whatever the coercion flag says.
EnvDataProcessEnv == [k \in DOMAIN processEnv |-> StrVal(processEnv[k])]

\* get(schema): what it validates, and what it logs and returns or throws.
EnvData == IF coerceValues THEN parsedValues ELSE [k \in DOMAIN processEnv |-> StrVal(processEnv[k])]

Get(schema, logNow) ==
    LET result == SafeParse(schema, EnvData)
    IN  IF result.success
        THEN [log |-> logNow, threw |-> FALSE, value |-> result.data]
        ELSE [log |-> Append(logNow, Error(toPrettyZodError(result.issues))),
              threw |-> TRUE, value |-> toPrettyZodError(result.issues)]

\* A slip: the validation event is logged whether or not a schema was given.
FinishAnnouncesAlways(logNow) ==
    LET announced == Append(logNow, Info(<<"Validating environment variables">>))
        validated ==
            IF options.hasSchema
            THEN Get(options.schema, announced)
            ELSE [log |-> announced, threw |-> FALSE, value |-> <<>>]
    IN  /\ log' = validated.log
        /\ IF validated.threw
           THEN /\ pc' = "rejected"
                /\ outcome' = [status |-> "rejected", value |-> validated.value]
           ELSE IF options.entry = "load"
           THEN /\ pc' = "initialized"
                /\ outcome' = outcome
           ELSE /\ pc' = "resolved"
                /\ outcome' = [status |-> "resolved", value |-> <<"instance">>]

\* The end of initialize: validation when a schema was given, then the return to
\* configure (which resolves with the instance) or to the static load.
Finish(logNow) ==
    LET validated ==
            IF options.hasSchema
            THEN Get(options.schema, Append(logNow, Info(<<"Validating environment variables">>)))
            ELSE [log |-> logNow, threw |-> FALSE, value |-> <<>>]
    IN  /\ log' = validated.log
        /\ IF validated.threw
           THEN /\ pc' = "rejected"
                /\ outcome' = [status |-> "rejected", value |-> validated.value]
           ELSE IF options.entry = "load"
           THEN /\ pc' = "initialized"
                /\ outcome' = outcome
           ELSE /\ pc' = "resolved"
                /\ outcome' = [status |-> "resolved", value |-> <<"instance">>]

\* The files a session may find on disk, as text.
Text(fileLines) == Join(fileLines, NewLine)

LineKBase == <<"K", "=", "b", "a", "s", "e">>

LineKB == <<"K", "=", "b">>

LineKDev == <<"K", "=", "d", "e", "v">>

LineKProd == <<"K", "=", " ", "p", "r", "o", "d">>

LineKTrue == <<"K", "=", "T", "r", "u", "e">>

LineJNum == <<"J", "=", "0", "0", "7">>

LineJDev == <<"J", "=", Quote, "d", Quote>>

LineSelectP == ProfilesKey \o <<"=", "p">>

LineSelectBoth == ProfilesKey \o <<"=", " ", "d", " ", ",", ",", "p">>

ProfileD == <<"d">>

ProfileP == <<"p">>

FileSystems ==
    { \* every file present; the base file selects nothing
      (EnvPath :> Text(<<LineKBase, LineJNum>>)) @@ (PathB :> Text(<<LineKB>>))
        @@ (ProfilePath(ProfileD) :> Text(<<LineKDev>>))
        @@ (ProfilePath(ProfileP) :> Text(<<<<"#", "c">>, LineKProd, LineJDev>>)),
      \* explicit files select the profiles; one profile file does not define K
      (EnvPath :> Text(<<LineKBase, LineSelectP>>)) @@ (PathB :> Text(<<LineSelectBoth, LineKB>>))
        @@ (ProfilePath(ProfileD) :> Text(<<LineKTrue>>))
        @@ (ProfilePath(ProfileP) :> Text(<<LineJNum>>)),
      \* the base file and one profile file are missing; a profile file sets PROFILES
      (PathB :> Text(<<LineKB>>))
        @@ (ProfilePath(ProfileD) :> Text(<<LineKDev, LineSelectP>>)) }

\* process.env before the call: PROFILES unset, or set by the caller.
InitialEnvs ==
    { <<>>,
      (ProfilesKey :> <<"d">>) @@ (<<"K">> :> <<"o", "l", "d">>),
      (<<"K">> :> <<"o", "l", "d">>),
      (ProfilesKey :> <<"p", ",", "d">>),
      (ProfilesKey :> <<" ", ",", " ", ",">>),
      (ProfilesKey :> <<>>),
      (ProfilesKey :> <<" ", "d", ",", ",", "d", ",", "p", " ">>) }

ExplicitPaths == {EnvPath, PathB, NULL}

RECURSIVE SeqsUpTo(_, _)
SeqsUpTo(S, n) ==
    IF n = 0 THEN {<<>>}
    ELSE LET shorter == SeqsUpTo(S, n - 1)
         IN  shorter \cup {Append(q, x) : q \in shorter, x \in S}

Schemas == {{<<"K">>}, {<<"K">>, <<"J">>}}

OptionChoices ==
    {[entry |-> e, hasFilepaths |-> TRUE, filepaths |-> f, hasSchema |-> TRUE, schema |-> sch] :
        e \in {"configure", "load"}, f \in SeqsUpTo(ExplicitPaths, MaxFiles), sch \in Schemas}
    \cup
    {[entry |-> e, hasFilepaths |-> FALSE, filepaths |-> <<>>, hasSchema |-> TRUE, schema |-> sch] :
        e \in {"configure", "load"}, sch \in Schemas}
    \cup
    {[entry |-> "configure", hasFilepaths |-> TRUE, filepaths |-> f, hasSchema |-> FALSE,
      schema |-> {}] : f \in SeqsUpTo(ExplicitPaths, MaxFiles)}
    \cup
    {[entry |-> "configure", hasFilepaths |-> FALSE, filepaths |-> <<>>, hasSchema |-> FALSE,
      schema |-> {}]}

Init ==
    /\ ParserIdle
    /\ ppc = "idle"
    /\ coerceValues \in BOOLEAN
    /\ parsedValues = <<>>
    /\ processEnv \in InitialEnvs
    /\ options \in OptionChoices
    /\ fileSystem \in FileSystems
    /\ pc = "explicit"
    /\ idx = 0
    /\ profiles = Undefined
    /\ inFlight = {}
    /\ reads = <<>>
    /\ log = <<>>
    /\ loaded = <<>>
    /\ selector = NULL
    /\ outcome = Pending
    /\ extraLoads = 0

\* initialize: the next explicit file.
StartExplicit ==
    /\ pc = "explicit"
    /\ idx < Len(Filepaths)
    /\ Awaited
    /\ StartLoad(PathOf(Filepaths[idx + 1]), "explicit", log)
    /\ idx' = idx + 1
    /\ UNCHANGED <<parserVars, coerceValues, parsedValues, processEnv, options, fileSystem,
                   pc, profiles, loaded, selector, outcome, extraLoads>>

\* initialize, after the explicit files: PROFILES is read; with profiles, the
\* first profile file's load starts.
EnterProfiles ==
    /\ pc = "explicit"
    /\ idx = Len(Filepaths)
    /\ Awaited
    /\ HasProfiles(ProfileNames(processEnv))
    /\ profiles' = ProfileNames(processEnv)
    /\ selector' = processEnv[ProfilesKey]
    /\ StartLoad(ProfilePath(profiles'[1]), "profile",
                 Append(log, Info(<<"Loading profiles: PROFILES=", Join(profiles', <<",">>)>>)))
    /\ pc' = "profiles"
    /\ idx' = 1
    /\ UNCHANGED <<parserVars, coerceValues, parsedValues, processEnv, options, fileSystem,
                   loaded, outcome, extraLoads>>

\* initialize, after the explicit files, with no profile to load.
SkipProfiles ==
    /\ pc = "explicit"
    /\ idx = Len(Filepaths)
    /\ Awaited
    /\ ~HasProfiles(ProfileNames(processEnv))
    /\ profiles' = ProfileNames(processEnv)
    /\ selector' = IF ProfilesKey \in DOMAIN processEnv THEN processEnv[ProfilesKey] ELSE NULL
    /\ Finish(log)
    /\ UNCHANGED <<parserVars, coerceValues, parsedValues, processEnv, options, fileSystem,
                   idx, inFlight, reads, loaded, extraLoads>>

\* initialize: the next profile file.
StartProfile ==
    /\ pc = "profiles"
    /\ idx < Len(profiles)
    /\ Awaited
    /\ StartLoad(ProfilePath(profiles[idx + 1]), "profile", log)
    /\ idx' = idx + 1
    /\ UNCHANGED <<parserVars, coerceValues, parsedValues, processEnv, options, fileSystem,
                   pc, profiles, loaded, selector, outcome, extraLoads>>

\* initialize, after the last profile file.
FinishProfiles ==
    /\ pc = "profiles"
    /\ idx = Len(profiles)
    /\ Awaited
    /\ Finish(log)
    /\ UNCHANGED <<parserVars, coerceValues, parsedValues, processEnv, options, fileSystem,
                   idx, profiles, inFlight, reads, loaded, selector, extraLoads>>

\* The static load, after initialize: return dotenv.get(options.schema).
LoadReturn ==
    /\ pc = "initialized"
    /\ LET got == Get(options.schema, log)
       IN  /\ log' = got.log
           /\ pc' = IF got.threw THEN "rejected" ELSE "resolved"
           /\ outcome' = [status |-> pc', value |-> got.value]
    /\ UNCHANGED <<parserVars, coerceValues, parsedValues, processEnv, options, fileSystem,
                   idx, profiles, inFlight, reads, loaded, selector, extraLoads>>

\* A slip: the profile loop reads PROFILES again after each profile file.
ReadResolvesRereads ==
    \E r \in inFlight :
        /\ reads[r].path \in DOMAIN fileSystem
        /\ LET envFile == fileSystem[reads[r].path]
               result == parseEnvFile(Split(envFile, "\n"), coerceValues)
           IN  /\ processEnv' = MergeEnv(processEnv, result)
               /\ parsedValues' = MergeParsed(parsedValues, result)
               /\ loaded' = Append(loaded, [read |-> r, path |-> reads[r].path,
                                            phase |-> reads[r].phase, result |-> result])
        /\ inFlight' = inFlight \ {r}
        /\ pc' = IF pc = "extra" THEN "resolved" ELSE pc
        /\ profiles' = IF pc = "profiles" THEN ProfileNames(processEnv') ELSE profiles
        /\ UNCHANGED <<parserVars, coerceValues, options, fileSystem, idx,
                       reads, log, selector, outcome, extraLoads>>

\* load(filepath), the read resolved: parse, then write every pair to process.env
\* and to parsedValues.
ReadResolves ==
    \E r \in inFlight :
        /\ reads[r].path \in DOMAIN fileSystem
        /\ LET envFile == fileSystem[reads[r].path]
               result == parseEnvFile(Split(envFile, "\n"), coerceValues)
           IN  /\ processEnv' = MergeEnv(processEnv, result)
               /\ parsedValues' = MergeParsed(parsedValues, result)
               /\ loaded' = Append(loaded, [read |-> r, path |-> reads[r].path,
                                            phase |-> reads[r].phase, result |-> result])
        /\ inFlight' = inFlight \ {r}
        /\ pc' = IF pc = "extra" THEN "resolved" ELSE pc
        /\ UNCHANGED <<parserVars, coerceValues, options, fileSystem, idx, profiles,
                       reads, log, selector, outcome, extraLoads>>

\* A slip: the catch block throws the error again without logging it.
ReadRejectsSilent ==
    \E r \in inFlight :
        /\ reads[r].path \notin DOMAIN fileSystem
        /\ inFlight' = inFlight \ {r}
        /\ IF pc = "extra"
           THEN pc' = "resolved" /\ outcome' = outcome
           ELSE /\ pc' = "rejected"
                /\ outcome' = [status |-> "rejected", value |-> <<"ENOENT", reads[r].path>>]
        /\ UNCHANGED <<parserVars, coerceValues, parsedValues, processEnv, options,
                       fileSystem, idx, profiles, reads, log, loaded, selector, extraLoads>>

\* A slip: the catch block logs the error and does not throw it again.
ReadRejectsSwallowed ==
    \E r \in inFlight :
        /\ reads[r].path \notin DOMAIN fileSystem
        /\ log' = Append(log, Error(<<"Failed to load environment variables from ",
                                      reads[r].path>>))
        /\ inFlight' = inFlight \ {r}
        /\ pc' = IF pc = "extra" THEN "resolved" ELSE pc
        /\ UNCHANGED <<parserVars, coerceValues, parsedValues, processEnv, options,
                       fileSystem, idx, profiles, reads, loaded, selector, outcome,
                       extraLoads>>

\* A slip: the catch block undoes the bindings of the files loaded before.
ReadRejectsRollsBack ==
    \E r \in inFlight :
        /\ reads[r].path \notin DOMAIN fileSystem
        /\ log' = Append(log, Error(<<"Failed to load environment variables from ",
                                      reads[r].path>>))
        /\ inFlight' = inFlight \ {r}
        /\ processEnv' = [key \in DOMAIN processEnv \ DOMAIN parsedValues |-> processEnv[key]]
        /\ parsedValues' = <<>>
        /\ IF pc = "extra"
           THEN pc' = "resolved" /\ outcome' = outcome
           ELSE /\ pc' = "rejected"
                /\ outcome' = [status |-> "rejected", value |-> <<"ENOENT", reads[r].path>>]
        /\ UNCHANGED <<parserVars, coerceValues, options,
                       fileSystem, idx, profiles, reads, loaded, selector, extraLoads>>

\* load(filepath), the read failed: the error is logged and thrown again; it ends
\* the configure/load call (a later load() call fails alone).
ReadRejects ==
    \E r \in inFlight :
        /\ reads[r].path \notin DOMAIN fileSystem
        /\ log' = Append(log, Error(<<"Failed to load environment variables from ",
                                      reads[r].path>>))
        /\ inFlight' = inFlight \ {r}
        /\ IF pc = "extra"
           THEN pc' = "resolved" /\ outcome' = outcome
           ELSE /\ pc' = "rejected"
                /\ outcome' = [status |-> "rejected", value |-> <<"ENOENT", reads[r].path>>]
        /\ UNCHANGED <<parserVars, coerceValues, parsedValues, processEnv, options,
                       fileSystem, idx, profiles, reads, loaded, selector, extraLoads>>

\* A later load(filepath) on the instance configure returned.
ExtraLoad ==
    /\ pc = "resolved"
    /\ options.entry = "configure"
    /\ extraLoads < MaxExtraLoads
    /\ Awaited
    /\ \E path \in {EnvPath, PathB} : StartLoad(path, "extra", log)
    /\ pc' = "extra"
    /\ extraLoads' = extraLoads + 1
    /\ UNCHANGED <<parserVars, coerceValues, parsedValues, processEnv, options, fileSystem,
                   idx, profiles, loaded, selector, outcome>>

Next ==
    \/ StartExplicit
    \/ EnterProfiles
    \/ SkipProfiles
    \/ StartProfile
    \/ FinishProfiles
    \/ LoadReturn
    \/ ReadResolves
    \/ ReadRejects
    \/ ExtraLoad

Spec == Init /\ [][Next]_vars

\* ---------------------------------------------- properties: the orchestrator
\* The ParseResults merged so far that define key.
Defining(key) == {i \in 1..Len(loaded) : key \in DOMAIN loaded[i].result}

LatestDefining(key) == CHOOSE i \in Defining(key) : \A j \in Defining(key) : j <= i

LoadedKeys == UNION {DOMAIN loaded[i].result : i \in 1..Len(loaded)}

\* C1: after any sequence of successful loads, every key some loaded file defines
\* is bound, in process.env and in the instance's mapping, to the value from the
\* most recently loaded file that defines it.
C1_LastLoadedFileWins ==
    \A key \in LoadedKeys :
        /\ key \in DOMAIN processEnv
        /\ processEnv[key] = StringOf(loaded[LatestDefining(key)].result[key])
        /\ key \in DOMAIN parsedValues
        /\ parsedValues[key] = loaded[LatestDefining(key)].result[key]

C1_Witness ==
    /\ Len(loaded) = 2
    /\ loaded[1].path = EnvPath
    /\ loaded[2].path = PathB
    /\ <<"K">> \in DOMAIN loaded[1].result
    /\ <<"K">> \in DOMAIN loaded[2].result
    /\ loaded[1].result[<<"K">>] # loaded[2].result[<<"K">>]
    /\ processEnv[<<"K">>] = <<"b">>

PathsOf(phase) ==
    LET chosen == SelectSeq(reads, LAMBDA read : read.phase = phase)
    IN  [k \in 1..Len(chosen) |-> chosen[k].path]

IsPrefix(short, long) == Len(short) <= Len(long) /\ short = SubSeq(long, 1, Len(short))

ExplicitOrder ==
    [k \in 1..Len(options.filepaths) |->
        IF options.filepaths[k] = NULL THEN <<".", "e", "n", "v">> ELSE options.filepaths[k]]

ProfileOrder ==
    IF profiles = Undefined THEN <<>>
    ELSE [k \in 1..Len(profiles) |-> <<".", "e", "n", "v", ".">> \o profiles[k]]

InitializeReads == {r \in 1..Len(reads) : reads[r].phase # "extra"}

\* C2: in one initialize run the files are read in the order of the explicit
\* paths, then in the order of the profile list; a read starts only after the
\* previous file was read, parsed and merged, so at most one load is in progress.
C2_SequentialOrderedLoads ==
    /\ Cardinality(inFlight) <= 1
    /\ \A r \in InitializeReads :
          r < Len(reads) => \E i \in 1..Len(loaded) : loaded[i].read = r
    /\ \A r \in InitializeReads : \A q \in InitializeReads :
          (r < q /\ reads[r].phase = "profile") => reads[q].phase = "profile"
    /\ IsPrefix(PathsOf("explicit"), ExplicitOrder)
    /\ IsPrefix(PathsOf("profile"), ProfileOrder)
    /\ PathsOf("profile") # <<>> => PathsOf("explicit") = ExplicitOrder

C2_Witness ==
    /\ options.filepaths = <<PathB, EnvPath>>
    /\ PathsOf("explicit") = <<PathB, EnvPath>>
    /\ PathsOf("profile") = <<ProfilePath(ProfileP), ProfilePath(ProfileD)>>
    /\ Len(loaded) = 3
    /\ Cardinality(inFlight) = 1

\* The ParseResult of the file of the j-th selected profile.
ProfileResult(j) ==
    parseEnvFile(Split(fileSystem[<<".", "e", "n", "v", ".">> \o profiles[j]], "\n"),
                 coerceValues)

DefiningProfiles(key) ==
    IF profiles = Undefined THEN {}
    ELSE {j \in 1..Len(profiles) : key \in DOMAIN ProfileResult(j)}

LastDefiningProfile(key) ==
    CHOOSE j \in DefiningProfiles(key) : \A m \in DefiningProfiles(key) : m <= j

SessionKeys == {<<"K">>, <<"J">>, ProfilesKey}

\* The configure/load call has resolved and no later load() call was made.
SessionResolved == pc = "resolved" /\ extraLoads = 0

\* C3: when the call resolves, a key that selected profile files define has the
\* value from the last profile of the PROFILES list that defines it, in the store
\* and in the validated result, whatever the explicit files say.
C3_LastProfileWins ==
    SessionResolved =>
        \A key \in SessionKeys :
            DefiningProfiles(key) # {} =>
                LET value == ProfileResult(LastDefiningProfile(key))[key]
                IN  /\ processEnv[key] = StringOf(value)
                    /\ (options.entry = "load" /\ key \in options.schema)
                          => outcome.value[key] =
                                IF coerceValues THEN value ELSE StrVal(StringOf(value))

C3_Witness ==
    /\ SessionResolved
    /\ options.entry = "load"
    /\ coerceValues
    /\ PathsOf("explicit") = <<EnvPath>>
    /\ profiles = <<ProfileD, ProfileD, ProfileP>>
    /\ <<"K">> \in DOMAIN loaded[1].result
    /\ outcome.value[<<"K">>] = StrVal(<<"p", "r", "o", "d">>)
    /\ processEnv[<<"K">>] = <<"p", "r", "o", "d">>

\* The names a PROFILES value selects, read off character by character: the text
\* between commas, trimmed, when something is left of it.
KeepName(names, text) == IF Trim(text) = <<>> THEN names ELSE Append(names, Trim(text))

RECURSIVE ScanNames(_, _, _)
ScanNames(text, current, names) ==
    IF text = <<>> THEN KeepName(names, current)
    ELSE IF Head(text) = "," THEN ScanNames(Tail(text), <<>>, KeepName(names, current))
    ELSE ScanNames(Tail(text), Append(current, Head(text)), names)

ExpectedProfilePaths ==
    IF selector = NULL THEN <<>>
    ELSE LET names == ScanNames(selector, <<>>, <<>>)
         IN  [k \in 1..Len(names) |-> <<".", "e", "n", "v", ".">> \o names[k]]

\* C4: the profile files loaded are those of the PROFILES value split on ',',
\* each entry trimmed, empty entries removed, order and repetitions kept, one load
\* of '.env.<p>' per name: never anything else, and all of them once the call is
\* past its profile files.
C4_ProfileFilesFollowSelector ==
    /\ IsPrefix(PathsOf("profile"), ExpectedProfilePaths)
    /\ pc \in {"initialized", "resolved", "extra"} => PathsOf("profile") = ExpectedProfilePaths

C4_Witness ==
    /\ pc = "resolved"
    /\ selector = <<" ", "d", ",", ",", "d", ",", "p", " ">>
    /\ PathsOf("profile") = <<ProfilePath(ProfileD), ProfilePath(ProfileD), ProfilePath(ProfileP)>>

OnlyCommasAndWhitespace(text) == \A k \in 1..Len(text) : text[k] \in WhiteSpace \cup {","}

\* PROFILES was unset, empty, or commas and whitespace only when it was read.
NothingSelected ==
    /\ pc # "explicit"
    /\ selector = NULL \/ OnlyCommasAndWhitespace(selector)

\* C5: with PROFILES unset, empty or made of commas and whitespace, no profile
\* file is read; without filepaths either, the call reads no file at all.
C5_NoProfilesNoReads ==
    NothingSelected =>
        /\ PathsOf("profile") = <<>>
        /\ (~options.hasFilepaths /\ extraLoads = 0) => reads = <<>>

C5_Witness ==
    /\ pc = "resolved"
    /\ selector = <<" ", ",", " ", ",">>
    /\ ~options.hasFilepaths
    /\ reads = <<>>

\* ------------------------------------------------- properties: the tokenizer
Last(seq) == seq[Len(seq)]

KeyK == <<"K">>

KeyJ == <<"J">>

IsCommentText(line) == Trim(line) # <<>> /\ Head(Trim(line)) = "#"

IsBlankText(line) == \A k \in 1..Len(line) : line[k] \in WhiteSpace

\* The file is one block: the opening line K=""", content lines none of which
\* ends with the marker, and a closing line made of the marker alone.
IsOneBlockFile ==
    /\ ppc = "returned"
    /\ Len(lines) >= 2
    /\ lines[1] = BlockOpen
    /\ Last(lines) = BlockClose
    /\ \A k \in 2..(Len(lines) - 1) : ~EndsWith(Trim(lines[k]), TripleQuote)

BlockContent == SubSeq(lines, 2, Len(lines) - 1)

\* C6: for the block K=""" / L1..Ln / """ the value of K is exactly L1..Ln joined
\* by single newlines, with no trailing marker and no extra leading or trailing
\* newline. Stated on blocks whose content has no '#' line (those are C7's case).
C6_BlockValueIsJoinedContent ==
    (IsOneBlockFile /\ \A k \in 1..Len(BlockContent) : ~IsCommentText(BlockContent[k]))
        => /\ KeyK \in DOMAIN envVars
           /\ envVars[KeyK] = StrVal(Join(BlockContent, NewLine))

\* C7: a line whose trimmed text starts with '#', read while a block is open, is
\* kept verbatim as a line of the block's value.
C7_CommentInBlockIsData ==
    (ppc = "loop" /\ inMultiline /\ Truthy(currentKey) /\ lines # <<>>
       /\ IsCommentText(Last(lines)))
        => (currentValue # <<>> /\ Last(currentValue) = Last(lines))

\* The text before and after the first '=' of a line, found by position.
FirstEquals(line) == CHOOSE i \in 1..Len(line) : line[i] = "=" /\ \A j \in 1..(i - 1) : line[j] # "="

KeyText(line) == SubSeq(line, 1, FirstEquals(line) - 1)

ValueText(line) == SubSeq(line, FirstEquals(line) + 1, Len(line))

\* The statement started by line k has no continuation line, and no later line
\* defines its key again.
IsSingleLineStatement(k) ==
    /\ branches[k] = "key"
    /\ \A j \in (k + 1)..Len(lines) :
          /\ branches[j] = "continuation" => \E m \in (k + 1)..(j - 1) : branches[m] = "key"
          /\ branches[j] = "key" => Trim(KeyText(lines[j])) # Trim(KeyText(lines[k]))

\* C8: an unquoted single-line statement KEY=value binds the key text, trimmed, to
\* the value text, trimmed.
C8_UnquotedValueIsTrimmed ==
    ppc = "returned" =>
        \A k \in 1..Len(lines) :
            (/\ IsSingleLineStatement(k)
             /\ Trim(KeyText(lines[k])) # <<>>
             /\ ~StartsWith(ValueText(lines[k]), <<Quote>>))
                => /\ Trim(KeyText(lines[k])) \in DOMAIN envVars
                   /\ envVars[Trim(KeyText(lines[k]))] = StrVal(Trim(ValueText(lines[k])))

C8_Witness ==
    /\ ppc = "returned"
    /\ \E k \in 1..Len(lines) :
          /\ lines[k] = <<" ", "K", " ", "=", " ", "v", " ">>
          /\ IsSingleLineStatement(k)
    /\ KeyK \in DOMAIN envVars
    /\ envVars[KeyK] = StrVal(<<"v">>)

\* C9: on a key line the key is the text before the first '=' and the value starts
\* with everything after that first '=', later '=' characters included.
C9_SplitAtFirstEquals ==
    (ppc = "loop" /\ lines # <<>> /\ Last(branches) = "key")
        => /\ currentKey = Trim(KeyText(Last(lines)))
           /\ ~StartsWith(ValueText(Last(lines)), TripleQuote)
                 => currentValue = <<ValueText(Last(lines))>>

C9_Witness ==
    /\ ppc = "returned"
    /\ lines # <<>>
    /\ Last(lines) = <<"J", "=", "a", "=", "b">>
    /\ Last(branches) = "key"
    /\ KeyJ \in DOMAIN envVars
    /\ envVars[KeyJ] = StrVal(<<"a", "=", "b">>)

\* The tokenizer is outside a block after the first k lines of the file.
OutsideBlockAfter(k) == ~ParseLines(ParserInit, SubSeq(lines, 1, k), coerceValues).inMultiline

RemoveLine(seq, k) == SubSeq(seq, 1, k - 1) \o SubSeq(seq, k + 1, Len(seq))

\* C10: a comment line or a blank line at a place outside any block has no
\* effect: the file without that line has the same ParseResult. (Read from the
\* shorter file to the longer one, this is the insertion of such a line.)
C10_SkippedLinesHaveNoEffect ==
    ppc = "returned" =>
        \A k \in 1..Len(lines) :
            ((IsCommentText(lines[k]) \/ IsBlankText(lines[k])) /\ OutsideBlockAfter(k - 1))
                => parseEnvFile(RemoveLine(lines, k), coerceValues) = envVars

C10_Witness ==
    /\ ppc = "returned"
    /\ Len(lines) = 3
    /\ branches = <<"key", "comment", "blank">>
    /\ DOMAIN envVars = {KeyK}

\* The key pending after the first k lines of the file, by replaying them.
PendingKeyAfter(k) == ParseLines(ParserInit, SubSeq(lines, 1, k), coerceValues).currentKey

HasNoEquals(line) == \A i \in 1..Len(line) : line[i] # "="

\* C11: the pass over a file ends with every line consumed by one branch and no
\* error; a line without '=' met while no key is pending contributes nothing:
\* the file without that line has the same ParseResult.
C11_StrayLineIsDropped ==
    /\ Len(branches) = Len(lines)
    /\ ppc = "returned" =>
          \A k \in 1..Len(lines) :
              (HasNoEquals(lines[k]) /\ PendingKeyAfter(k - 1) \in {NULL, <<>>})
                  => parseEnvFile(RemoveLine(lines, k), coerceValues) = envVars

C11_Witness ==
    /\ ppc = "returned"
    /\ lines = <<<<"a">>, <<" ", "K", " ", "=", " ", "v", " ">>, <<" ", "b", " ">>>>
    /\ branches = <<"dropped", "key", "continuation">>
    /\ DOMAIN envVars = {KeyK}

\* The line that decides the binding of its key: no later line defines the key.
IsLastDefinition(k) ==
    \A j \in (k + 1)..Len(lines) : Trim(KeyText(lines[j])) # Trim(KeyText(lines[k]))

EqualsIgnoringCase(text, word) ==
    /\ Len(text) = Len(word)
    /\ \A i \in 1..Len(text) : LowerChar(text[i]) = LowerChar(word[i])

ParsesAsJson(text) ==
    /\ text # <<>>
    /\ text[1] \in {"{", "["}
    /\ JsonParse(text)[1]

\* The classification of a finalized value by the first matching rule.
Classified(value) ==
    LET text == Trim(value)
    IN  IF ParsesAsJson(text) THEN JsonParse(text)[2]
        ELSE IF EqualsIgnoringCase(text, <<"t", "r", "u", "e">>) THEN BoolVal(TRUE)
        ELSE IF EqualsIgnoringCase(text, <<"f", "a", "l", "s", "e">>) THEN BoolVal(FALSE)
        ELSE IF EqualsIgnoringCase(text, <<"n", "u", "l", "l">>) THEN NullVal
        ELSE IF text # <<>> /\ ~isNaN(Number(text)) THEN Number(text)
        ELSE StrVal(value)

\* C12: with coercion enabled, the value bound to a key is its finalized value
\* classified by the first matching rule: JSON object or array, boolean, null,
\* number, else the original string (the empty string stays the empty string).
C12_CoercionByFirstMatchingRule ==
    (ppc = "returned" /\ coerceValues) =>
        \A k \in 1..Len(lines) :
            IsLastDefinition(k) =>
                /\ Trim(KeyText(lines[k])) \in DOMAIN envVars
                /\ envVars[Trim(KeyText(lines[k]))]
                       = Classified(processValue(Trim(ValueText(lines[k]))))

C12_Witness ==
    /\ ppc = "returned"
    /\ coerceValues
    /\ lines = <<<<"K", "=", "3", "0", "0", "0">>,
                 <<"K", "=", "{", Quote, "a", Quote, ":", "1", "}">>>>
    /\ envVars[KeyK] = ObjectOf(<<<<<<"a">>, 1>>>>)

StartsLikeJson(text) == text # <<>> /\ text[1] \in {"{", "["}

\* C13: with coercion enabled, a value that starts with '{' or '[' and is not
\* valid JSON does not fail the parse: the pass returns and the key is bound to
\* the original string.
C13_InvalidJsonStaysString ==
    (ppc = "returned" /\ coerceValues) =>
        \A k \in 1..Len(lines) :
            LET value == processValue(Trim(ValueText(lines[k])))
            IN  (/\ IsLastDefinition(k)
                 /\ StartsLikeJson(Trim(value))
                 /\ ~JsonParse(Trim(value))[1])
                    => /\ Trim(KeyText(lines[k])) \in DOMAIN envVars
                       /\ envVars[Trim(KeyText(lines[k]))] = StrVal(value)

C13_Witness ==
    /\ ppc = "returned"
    /\ coerceValues
    /\ lines = <<<<"K", "=", "{", "a", ":", " ", "}">>>>
    /\ envVars[KeyK] = StrVal(<<"{", "a", ":", " ", "}">>)

\* ---------------------------------------- properties: coercion, errors, events
FileLines(path) == Split(fileSystem[path], "\n")

IsStatement(line) == ~HasNoEquals(line) /\ ~IsCommentText(line)

\* The normalized text the file at path gives to key: the value text of the
\* file's last statement for the key, trimmed and unquoted.
NormalizedText(path, key) ==
    LET fileLines == FileLines(path)
        Defines(k) == IsStatement(fileLines[k]) /\ Trim(KeyText(fileLines[k])) = key
        last == CHOOSE k \in 1..Len(fileLines) :
                    Defines(k) /\ \A j \in (k + 1)..Len(fileLines) : ~Defines(j)
    IN  processValue(Trim(ValueText(fileLines[last])))

\* C14: without the coercion flag every value of every ParseResult is the string
\* of its normalized text, and so is every file-defined value handed to the
\* validator or returned by it; nothing is a number, boolean, null or structure.
C14_CoercionIsOptIn ==
    ~coerceValues =>
        /\ \A i \in 1..Len(loaded) : \A key \in DOMAIN loaded[i].result :
              loaded[i].result[key] = StrVal(NormalizedText(loaded[i].path, key))
        /\ \A key \in LoadedKeys :
              EnvData[key] = StrVal(NormalizedText(loaded[LatestDefining(key)].path, key))
        /\ (options.entry = "load" /\ outcome.status = "resolved") =>
              \A key \in DOMAIN outcome.value : outcome.value[key].t = "string"

C14_Witness ==
    /\ ~coerceValues
    /\ options.entry = "load"
    /\ outcome.status = "resolved"
    /\ options.schema = {KeyK, KeyJ}
    /\ outcome.value[KeyK] = StrVal(<<"T", "r", "u", "e">>)
    /\ outcome.value[KeyJ] = StrVal(<<"0", "0", "7">>)

\* The read r has settled without a ParseResult: it failed.
ReadFailed(r) == r \notin inFlight /\ \A i \in 1..Len(loaded) : loaded[i].read # r

ValidationAnnounced ==
    \E e \in 1..Len(log) : log[e] = Info(<<"Validating environment variables">>)

\* C15: a failed read of the load sequence ends the configure/load call at once:
\* it is the last read of the run (nothing later is read, nothing is retried),
\* no validation is run, and the call is rejected with the read error.
C15_ReadFailureAbortsTheRun ==
    \A r \in InitializeReads :
        ReadFailed(r) =>
            /\ r = Len(reads)
            /\ pc = "rejected"
            /\ outcome = [status |-> "rejected", value |-> <<"ENOENT", reads[r].path>>]
            /\ ~ValidationAnnounced

C15_Witness ==
    /\ pc = "rejected"
    /\ options.hasSchema
    /\ profiles = <<ProfileP, ProfileD>>
    /\ PathsOf("profile") = <<ProfilePath(ProfileP)>>
    /\ ReadFailed(Len(reads))
    /\ ProfilePath(ProfileD) \in DOMAIN fileSystem

\* Validation ran and rejected the mapping (a failed read never reaches it).
ValidationRejected == pc = "rejected" /\ ValidationAnnounced

\* The schema keys the validator finds missing, in the order of the shape.
MissingKeys ==
    SelectSeq(<<KeyK, KeyJ>>, LAMBDA key : key \in options.schema /\ key \notin DOMAIN EnvData)

IssueLine(key) == key \o <<": ", "Required">>

\* C16, as amended: when the validator rejects the mapping, the call fails with
\* an error, logged as well, whose message starts with 'Zod validation error: '
\* and the validator's own message, and ends with one '<path>: <message>' line
\* for each issue, so every failing field is referenced.
C16_MessageListsEveryIssue ==
    ValidationRejected =>
        LET message == outcome.value
            segments == Split(message, "\n")
            n == Len(MissingKeys)
        IN  /\ n >= 1
            /\ outcome.status = "rejected"
            /\ message[1] = "Zod validation error: "
            /\ Len(segments) > n
            /\ \A k \in 1..n : segments[Len(segments) - n + k] = IssueLine(MissingKeys[k])
            /\ Last(log) = Error(message)

C16_Witness ==
    /\ ValidationRejected
    /\ options.schema = {KeyK, KeyJ}
    /\ KeyK \in DOMAIN EnvData
    /\ MissingKeys = <<KeyJ>>
    /\ Last(Split(outcome.value, "\n")) = <<"J", ": ", "Required">>

\* C16, as stated: the message is the header 'Validation error: ' followed by
\* one '<path>: <message>' line for each issue.
C16_MessageIsHeaderAndIssueLines ==
    ValidationRejected =>
        outcome.value =
            <<"Validation error: ">>
                \o Join([k \in 1..Len(MissingKeys) |-> IssueLine(MissingKeys[k])], <<"\n">>)

ErrorEvents == {e \in 1..Len(log) : log[e].level = "error"}

FailedReads == {r \in 1..Len(reads) : ReadFailed(r)}

\* C17: a call that fails, by a failed read or by a rejected validation, has
\* logged an error event by the time it is rejected; error events are logged for
\* failures only, so a run that succeeds has none.
C17_ErrorLoggedBeforeRejection ==
    /\ outcome.status = "rejected" => (log # <<>> /\ Last(log).level = "error")
    /\ \A r \in FailedReads :
          \E e \in ErrorEvents :
              log[e].msg = <<"Failed to load environment variables from ", reads[r].path>>
    /\ Cardinality(ErrorEvents)
          = Cardinality(FailedReads) + (IF ValidationRejected THEN 1 ELSE 0)
    /\ SessionResolved => ErrorEvents = {}

C17_Witness ==
    /\ outcome.status = "rejected"
    /\ reads # <<>>
    /\ ReadFailed(Len(reads))
    /\ Last(reads).phase = "explicit"
    /\ Last(log) = Error(<<"Failed to load environment variables from ", EnvPath>>)

LoadingEvents ==
    SelectSeq(log, LAMBDA event :
        event.level = "info" /\ event.msg[1] = "Loading environment variables from ")

\* The read r has settled, with a ParseResult or with an error.
ReadSettled(r) == r \notin inFlight

\* C18: every load attempt emits the info event 'Loading environment variables
\* from <path>' exactly once, before its read: the events and the reads are the
\* same paths in the same order, and what a read ends with (an error event)
\* follows its own loading event.
C18_LoadingEventPerRead ==
    /\ Len(LoadingEvents) = Len(reads)
    /\ \A r \in 1..Len(reads) : LoadingEvents[r].msg = <<"Loading environment variables from ", reads[r].path>>
    /\ \A e \in ErrorEvents :
          log[e].msg[1] = "Failed to load environment variables from "
              => /\ e > 1
                 /\ log[e - 1] = Info(<<"Loading environment variables from ", log[e].msg[2]>>)

C18_Witness ==
    /\ pc = "resolved"
    /\ Len(reads) = 3
    /\ \A r \in 1..3 : ReadSettled(r)
    /\ reads[1].phase = "explicit"
    /\ reads[2].path = ProfilePath(ProfileP)
    /\ reads[3].path = ProfilePath(ProfileD)
    /\ Len(LoadingEvents) = 3

\* Validation has run and no later load() call has touched the store.
ValidationDone ==
    /\ options.hasSchema
    /\ (pc = "resolved" /\ extraLoads = 0) \/ ValidationRejected

\* The instance's own mapping: the values of the files loaded so far.
InstanceMapping == [key \in LoadedKeys |-> loaded[LatestDefining(key)].result[key]]

StoreMapping == [key \in DOMAIN processEnv |-> StrVal(processEnv[key])]

\* C19, as amended: without coercion the validator is handed the store's current
\* mapping, keys set before the session included; with coercion it is handed the
\* instance's own mapping of file-loaded values, which has no key that only the
\* process environment binds.
C19_ValidatedMapping ==
    ValidationDone =>
        LET handed == IF coerceValues THEN InstanceMapping ELSE StoreMapping
        IN  /\ outcome.status = "resolved" <=> options.schema \subseteq DOMAIN handed
            /\ (outcome.status = "resolved" /\ options.entry = "load") =>
                  \A key \in options.schema : outcome.value[key] = handed[key]

C19_Witness ==
    /\ ValidationRejected
    /\ coerceValues
    /\ options.schema = {KeyK}
    /\ KeyK \in DOMAIN processEnv
    /\ KeyK \notin LoadedKeys

\* C19, as stated: with or without coercion the validator is handed every key
\* bound in the process environment, so a schema whose keys are all bound there
\* is satisfied.
C19_ValidatorSeesTheStore ==
    ValidationDone =>
        (outcome.status = "resolved" <=> options.schema \subseteq DOMAIN processEnv)

\* A load has just merged the ParseResult of a file.
Merged == Len(loaded') = Len(loaded) + 1

\* C20: the step that merges a file binds every key of its ParseResult, in
\* process.env to the string form of the value and in the instance's mapping to
\* the value; a binding made stays as it is, through the return of the call,
\* until a later merge defines the same key.
C20_BindingsPersist ==
    [][ /\ Merged =>
              \A key \in DOMAIN Last(loaded').result :
                  /\ key \in DOMAIN processEnv'
                  /\ processEnv'[key] = StringOf(Last(loaded').result[key])
                  /\ key \in DOMAIN parsedValues'
                  /\ parsedValues'[key] = Last(loaded').result[key]
        /\ \A key \in DOMAIN processEnv :
              /\ key \in DOMAIN processEnv'
              /\ processEnv'[key] # processEnv[key]
                    => (Merged /\ key \in DOMAIN Last(loaded').result)
        /\ \A key \in DOMAIN parsedValues :
              /\ key \in DOMAIN parsedValues'
              /\ parsedValues'[key] # parsedValues[key]
                    => (Merged /\ key \in DOMAIN Last(loaded').result)
      ]_vars

C20_Witness ==
    /\ pc = "resolved"
    /\ extraLoads = 1
    /\ coerceValues
    /\ Len(loaded) = 2
    /\ KeyJ \in DOMAIN loaded[1].result
    /\ KeyJ \notin DOMAIN loaded[2].result
    /\ KeyK \in DOMAIN loaded[2].result
    /\ processEnv[KeyJ] = <<"7">>
    /\ parsedValues[KeyJ] = NumVal(7)

\* ------------------------------------------ properties: blocks and quotes
\* A value text wrapped in one double quote at each end.
IsQuoted(text) ==
    /\ Len(text) >= 2
    /\ text[1] = Quote
    /\ text[Len(text)] = Quote
    /\ ~StartsWith(text, TripleQuote)

\* The escape rules as documented: backslash-backslash is one backslash and
\* backslash-quote is one double quote.
RECURSIVE Unescaped(_)
Unescaped(text) ==
    IF text = <<>> THEN <<>>
    ELSE IF Len(text) >= 2 /\ text[1] = "\\" /\ text[2] \in {"\\", Quote}
         THEN <<text[2]>> \o Unescaped(SubSeq(text, 3, Len(text)))
         ELSE <<text[1]>> \o Unescaped(Tail(text))

\* C21: in a quoted value, backslash-backslash is stored as one backslash and
\* backslash-quote as one double quote.
C21_BackslashEscapes ==
    ppc = "returned" =>
        \A k \in 1..Len(lines) :
            (/\ IsSingleLineStatement(k)
             /\ Trim(KeyText(lines[k])) # <<>>
             /\ IsQuoted(ValueText(lines[k])))
                => /\ Trim(KeyText(lines[k])) \in DOMAIN envVars
                   /\ envVars[Trim(KeyText(lines[k]))]
                          = StrVal(Unescaped(Slice(ValueText(lines[k]), 1, 1)))

\* ------------------------------------------- properties: validation, profiles
ValidatingEvents ==
    {e \in 1..Len(log) : log[e] = Info(<<"Validating environment variables">>)}

ValidatorErrors == {e \in ErrorEvents : log[e].msg[1] = "Zod validation error: "}

LoadingEventsBefore(v) ==
    {e \in 1..(v - 1) :
        log[e].level = "info" /\ log[e].msg[1] = "Loading environment variables from "}

\* C22: the validator is called only when a schema was supplied, and only after
\* every file of the load sequence, explicit and profile, has been read and
\* merged; the info event 'Validating environment variables' comes before the
\* validator's verdict and is never logged without a schema.
C22_ValidationAfterAllLoads ==
    /\ ValidatingEvents # {} =>
          /\ options.hasSchema
          /\ Cardinality(ValidatingEvents) = 1
          /\ PathsOf("explicit") = ExplicitOrder
          /\ PathsOf("profile") = ProfileOrder
          /\ \A r \in InitializeReads : \E i \in 1..Len(loaded) : loaded[i].read = r
          /\ \A v \in ValidatingEvents :
                /\ Cardinality(LoadingEventsBefore(v)) = Cardinality(InitializeReads)
                /\ \A e \in ValidatorErrors : e > v
    /\ ValidatorErrors # {} => ValidatingEvents # {}
    /\ (options.hasSchema /\ pc \in {"initialized", "resolved", "extra"})
          => ValidatingEvents # {}
    /\ (options.entry = "load" /\ outcome.status = "resolved") => ValidatingEvents # {}

C22_Witness ==
    /\ pc = "resolved"
    /\ extraLoads = 0
    /\ options.hasSchema
    /\ PathsOf("explicit") = <<PathB>>
    /\ PathsOf("profile") = <<ProfilePath(ProfileP), ProfilePath(ProfileD)>>
    /\ Len(loaded) = 3
    /\ Last(log) = Info(<<"Validating environment variables">>)

\* The explicit files merged so far that define PROFILES.
ExplicitSelectors ==
    {i \in 1..Len(loaded) : loaded[i].phase = "explicit" /\ ProfilesKey \in DOMAIN loaded[i].result}

ProfileSelectors ==
    {i \in 1..Len(loaded) : loaded[i].phase # "explicit" /\ ProfilesKey \in DOMAIN loaded[i].result}

LatestExplicitSelector == CHOOSE i \in ExplicitSelectors : \A j \in ExplicitSelectors : j <= i

\* C23: PROFILES is read once, after every explicit file has been merged and
\* before any profile file is read: the value an explicit file defines selects
\* the profiles of the same session, and a value a profile file writes changes
\* neither the list nor the loads of that session.
C23_ProfilesReadOnce ==
    /\ selector # NULL =>
          /\ PathsOf("explicit") = ExplicitOrder
          /\ \A r \in InitializeReads : \A i \in 1..Len(loaded) :
                (reads[r].phase = "profile" /\ loaded[i].phase = "explicit") => loaded[i].read < r
          /\ ExplicitSelectors # {} =>
                selector = StringOf(loaded[LatestExplicitSelector].result[ProfilesKey])
          /\ (ExplicitSelectors = {} /\ ProfileSelectors = {}) =>
                selector = processEnv[ProfilesKey]
          /\ profiles = ScanNames(selector, <<>>, <<>>)
    /\ pc \in {"initialized", "resolved", "extra"} => PathsOf("profile") = ExpectedProfilePaths

C23_Witness ==
    /\ pc = "resolved"
    /\ extraLoads = 0
    /\ selector = <<"d">>
    /\ ProfileSelectors # {}
    /\ processEnv[ProfilesKey] = <<"p">>
    /\ PathsOf("profile") = <<ProfilePath(ProfileD)>>

\* The loop consumes a line in this step.
Consumes == ppc = "loop" /\ lines' # lines

\* The tokenizer is inside the block of a key.
InsideBlock == inMultiline /\ currentKey # NULL /\ currentKey # <<>>

ClosesBlock(line) == EndsWith(Trim(line), TripleQuote)

BeforeMarker(line) == SubSeq(TrimEnd(line), 1, Len(TrimEnd(line)) - 3)

AfterMarker(line) == SubSeq(line, Len(TrimEnd(line)) + 1, Len(line))

\* C25: the value line stored for a line that closes a block is that line with
\* the marker removed, also when whitespace follows the marker: no quote of the
\* marker is left.
C25_ClosingMarkerRemoved ==
    [][ (/\ Consumes
         /\ InsideBlock
         /\ ~IsCommentText(Last(lines'))
         /\ ClosesBlock(Last(lines')))
            => /\ currentValue' # <<>>
               /\ Last(currentValue') \in
                     { BeforeMarker(Last(lines')),
                       BeforeMarker(Last(lines')) \o AfterMarker(Last(lines')) }
      ]_vars

\* The ParseResult if the input ended here.
Emitted == SavePending(Parser, coerceValues)

\* A statement whose value is wrapped in the triple-quote marker on one line.
IsOneLineTriple(line) ==
    /\ ~HasNoEquals(line)
    /\ ~IsCommentText(line)
    /\ Trim(KeyText(line)) # <<>>
    /\ Len(ValueText(line)) >= 6
    /\ StartsWith(ValueText(line), TripleQuote)
    /\ EndsWith(ValueText(line), TripleQuote)

\* C26: KEY="""text""" on one line yields the inner text and does not leave the
\* tokenizer in block mode.
C26_OneLineTripleQuoted ==
    [][ (/\ Consumes
         /\ ~inMultiline
         /\ IsOneLineTriple(Last(lines')))
            => /\ ~inMultiline'
               /\ Trim(KeyText(Last(lines'))) \in DOMAIN Emitted'
               /\ Emitted'[Trim(KeyText(Last(lines')))]
                      = StrVal(Slice(ValueText(Last(lines')), 3, 3))
      ]_vars

\* The block of the pending key has been closed by its marker.
BlockClosed == wasMultiline /\ ~inMultiline /\ currentKey # NULL /\ currentKey # <<>>

\* C27: once the closing marker of a block has been consumed, a following line
\* without '=' does not change the value emitted for the block's key.
C27_ClosedBlockValueIsFinal ==
    [][ (/\ Consumes
         /\ BlockClosed
         /\ HasNoEquals(Last(lines')))
            => Emitted' = Emitted
      ]_vars

\* C28: in block mode, a line whose trimmed text ends with the marker exits
\* block mode, whatever the key of the opening line was.
C28_MarkerAlwaysClosesBlock ==
    [][ (/\ Consumes
         /\ inMultiline
         /\ ~IsCommentText(Last(lines'))
         /\ ClosesBlock(Last(lines')))
            => ~inMultiline'
      ]_vars

\* The line o opens a block of a key that no later line closes; lines starting
\* with '#' are left out of the statement.
IsUnclosedBlock(o) ==
    /\ branches[o] = "key"
    /\ Trim(KeyText(lines[o])) # <<>>
    /\ StartsWith(ValueText(lines[o]), TripleQuote)
    /\ \A j \in (o + 1)..Len(lines) : ~ClosesBlock(lines[j]) /\ ~IsCommentText(lines[j])

AbsorbedLines(o) ==
    (IF Len(ValueText(lines[o])) > 3
     THEN <<SubSeq(ValueText(lines[o]), 4, Len(ValueText(lines[o])))>> ELSE <<>>)
        \o SubSeq(lines, o + 1, Len(lines))

\* C29: a block that no line closes absorbs every remaining line, zero or more,
\* and at the end of the input its key is emitted with those lines joined by
\* newlines.
C29_UnclosedBlockIsEmitted ==
    ppc = "returned" =>
        \A o \in 1..Len(lines) :
            IsUnclosedBlock(o) =>
                /\ Trim(KeyText(lines[o])) \in DOMAIN envVars
                /\ envVars[Trim(KeyText(lines[o]))]
                       = StrVal(unescapeString(Join(AbsorbedLines(o), NewLine)))

\* A key whose value did not start with the marker is pending.
NonBlockKeyPending == ~wasMultiline /\ ~inMultiline /\ currentKey # NULL /\ currentKey # <<>>

IsContinuationText(line) == ~IsBlankText(line) /\ ~IsCommentText(line) /\ HasNoEquals(line)

StartsWithOneQuote(text) == StartsWith(text, <<Quote>>) /\ ~StartsWith(text, TripleQuote)

DenotesFiniteNumber(text) ==
    LET unsigned == IF text # <<>> /\ text[1] \in {"+", "-"} THEN Tail(text) ELSE text
    IN  /\ unsigned # <<>>
        /\ \A i \in 1..Len(unsigned) :
               unsigned[i] \in {"0", "1", "2", "3", "4", "5", "6", "7", "8", "9"}

\* C35: with coercion enabled, a key is bound to a number only when the whole
\* trimmed text of its value denotes a finite number, and the number is finite;
\* the empty string, 'Infinity' and non-numeric text stay strings.
C35_OnlyFiniteNumbersCoerced ==
    (ppc = "returned" /\ coerceValues) =>
        \A k \in 1..Len(lines) :
            LET value == processValue(Trim(ValueText(lines[k])))
                bound == envVars[Trim(KeyText(lines[k]))]
            IN  IsLastDefinition(k) =>
                    /\ bound.t = "number" =>
                           (DenotesFiniteNumber(Trim(value)) /\ "infinite" \notin DOMAIN bound)
                    /\ (~DenotesFiniteNumber(Trim(value)) /\ bound.t \in {"number", "string"})
                           => bound = StrVal(value)

\* --------------------------------- parseEnvFile on quoted and repeated values
\* The longest file of quoted statements.
MaxQuoteLines == 3

\* Statements whose values are quoted, half quoted or surrounded by whitespace,
\* statements with an empty key, and lines that fill a block or continue a value.
StatementLineSet ==
    { <<"K", "=", Quote>>,
      <<"K", "=", Quote, "a">>,
      <<"K", "=", Quote, Quote>>,
      <<"K", "=", Quote, " ", "a", " ", Quote>>,
      <<"K", "=", Quote, "a", "\\", Quote, "b", Quote>>,
      <<"K", "=", " ", Quote, "a", "\\", Quote, "b", Quote>>,
      <<"K", "=", Quote, "a", Quote, " ">>,
      <<"K", "=", " ", Quote, Quote, Quote>>,
      <<"K", "=", Quote, Quote, Quote>>,
      <<"K", "=", "b">>,
      <<"K", "=", Quote, "4", "2", Quote>>,
      <<"K", "=", Quote, "t", "r", "u", "e", Quote>>,
      <<" ", "J", " ", "=", " ", "w", " ">>,
      <<" ", "=", "v">>,
      <<"=", "v">>,
      <<Quote, "q", Quote>>,
      <<Quote, Quote, Quote>>,
      <<" ", "d", " ">>,
      <<"c", "\\", Quote, "e">>,
      <<"[", "1", ",", " ", "2", "]">> }

\* A pass over a file of such lines, with or without coercion.
QuoteInit ==
    /\ ParserIdle
    /\ ppc = "loop"
    /\ coerceValues \in BOOLEAN
    /\ SessionIdle

\* One iteration of the for loop, by the branch the line takes.
TakeKey ==
    \E line \in StatementLineSet :
        /\ Len(lines) < MaxQuoteLines
        /\ Branch(Parser, line) = "key"
        /\ Iterate(line)

TakeBlock ==
    \E line \in StatementLineSet :
        /\ Len(lines) < MaxQuoteLines
        /\ Branch(Parser, line) = "block"
        /\ Iterate(line)

TakeContinuation ==
    \E line \in StatementLineSet :
        /\ Len(lines) < MaxQuoteLines
        /\ Branch(Parser, line) = "continuation"
        /\ Iterate(line)

TakeDropped ==
    \E line \in StatementLineSet :
        /\ Len(lines) < MaxQuoteLines
        /\ Branch(Parser, line) = "dropped"
        /\ Iterate(line)

QuoteNext ==
    \/ TakeKey
    \/ TakeBlock
    \/ TakeContinuation
    \/ TakeDropped
    \/ EndOfInput

SpecQuote == QuoteInit /\ [][QuoteNext]_vars

\* ------------------------------------ properties: quotes and repeated keys
\* The text opens a double-quote and does not close it: no later quote but
\* escaped ones.
IsUnclosedQuote(text) ==
    /\ text # <<>>
    /\ text[1] = Quote
    /\ \A i \in 2..Len(text) : text[i] = Quote => text[i - 1] = "\\"

\* C31: a statement whose value opens a double-quote that is not closed on the
\* line, and that no continuation line follows, binds its key to the literal
\* text of the value, the opening quote included, also when nothing follows
\* the opening quote.
C31_UnclosedQuoteIsLiteral ==
    (/\ ppc = "loop"
     /\ ~coerceValues
     /\ NonBlockKeyPending
     /\ Len(currentValue) = 1
     /\ IsUnclosedQuote(currentValue[1]))
        => /\ currentKey \in DOMAIN Emitted
           /\ Emitted[currentKey] = StrVal(Trim(currentValue[1]))

\* Line k was taken as a statement of the key.
DefinesKey(k, key) == branches[k] = "key" /\ Trim(KeyText(lines[k])) = key

\* The binding of the key in a ParseResult, or no binding.
BindingOf(result, key) == IF key \in DOMAIN result THEN <<result[key]>> ELSE <<>>

\* C32: when a file defines a key more than once, its ParseResult binds the key
\* to the value of the last occurrence: the binding is the one the file has
\* from that occurrence on, whatever the earlier occurrences were.
C32_LastOccurrenceWins ==
    ppc = "returned" =>
        \A k \in 1..Len(lines) :
            LET key == Trim(KeyText(lines[k]))
            IN  (/\ DefinesKey(k, key)
                 /\ key # <<>>
                 /\ \E i \in 1..(k - 1) : DefinesKey(i, key)
                 /\ \A j \in (k + 1)..Len(lines) : ~DefinesKey(j, key))
                    => /\ key \in DOMAIN envVars
                       /\ BindingOf(envVars, key)
                              = BindingOf(parseEnvFile(SubSeq(lines, k, Len(lines)),
                                                       coerceValues), key)

\* The text with every backslash that stands before a double-quote removed.
RECURSIVE DropEscapes(_)
DropEscapes(text) ==
    IF text = <<>> THEN <<>>
    ELSE LET front == SubSeq(text, 1, Len(text) - 1)
         IN  IF text[Len(text)] = Quote /\ front # <<>> /\ front[Len(front)] = "\\"
             THEN DropEscapes(SubSeq(front, 1, Len(front) - 1)) \o <<Quote>>
             ELSE DropEscapes(front) \o <<text[Len(text)]>>

\* The pending lines joined by newlines: the assembled value.
Assembled == Join(currentValue, NewLine)

C36_CoercionAfterQuoteHandling ==
    (/\ coerceValues
     /\ currentKey # NULL /\ currentKey # <<>>
     /\ currentValue # <<>>)
        => LET finalized == SavePending(Parser, FALSE)[currentKey].v
           IN  /\ currentKey \in DOMAIN Emitted
               /\ Emitted[currentKey] = Classified(finalized)
               /\ ParsesAsJson(Trim(finalized)) => Emitted[currentKey].t \in {"array", "object"}
               /\ DenotesFiniteNumber(Trim(finalized)) => Emitted[currentKey].t = "number"

C36_Witness ==
    /\ ppc = "returned"
    /\ coerceValues
    /\ lines = <<<<"K", "=", Quote, Quote, Quote>>,
                 <<"[", "1", ",", " ", "2", "]">>,
                 <<Quote, Quote, Quote>>>>
    /\ branches = <<"key", "block", "block">>
    /\ envVars = (KeyK :> ArrayVal(<<1, 2>>))

\* A line taken as a statement: outside a block, no comment, with an '='.
TakenAsStatement ==
    /\ Consumes
    /\ ~inMultiline
    /\ ~IsCommentText(Last(lines'))
    /\ ~HasNoEquals(Last(lines'))

\* C38: every key of a ParseResult is a non-empty string without leading or
\* trailing whitespace, and a statement whose text before the first '=' is
\* empty or whitespace only adds no entry, neither when it is read nor after.
C38_KeysAreTrimmedAndNonEmpty ==
    [][ /\ \A key \in DOMAIN envVars' :
               key # <<>> /\ key # NULL /\ key[1] \notin WhiteSpace
                 /\ key[Len(key)] \notin WhiteSpace
        /\ (TakenAsStatement /\ Trim(KeyText(Last(lines'))) = <<>>)
              => /\ envVars' = Emitted
                 /\ Emitted' = envVars'
                 /\ DOMAIN Emitted' \subseteq DOMAIN Emitted
      ]_vars

C38_Witness ==
    /\ ppc = "returned"
    /\ lines = <<<<" ", "=", "v">>, <<" ", "J", " ", "=", " ", "w", " ">>, <<"=", "v">>>>
    /\ branches = <<"key", "key", "key">>
    /\ envVars = (KeyJ :> StrVal(<<"w">>))

\* C40: quotes are stripped only when the quote is the first character after
\* '=' and the last of the value. With whitespace between '=' and the opening
\* quote, or after the closing quote, the key is bound to the trimmed text, both
\* quotes kept and backslash-quote not replaced; whitespace between '=' and a
\* triple-quote marker does not open a block.
C40_QuotesNeedExactPosition ==
    [][ TakenAsStatement =>
          LET text == ValueText(Last(lines'))
              key == Trim(KeyText(Last(lines')))
              spaceBeforeQuote == TrimStart(text) # text /\ StartsWith(TrimStart(text), <<Quote>>)
              spaceAfterQuote ==
                  /\ StartsWithOneQuote(text)
                  /\ TrimEnd(text) # text
                  /\ EndsWith(TrimEnd(text), <<Quote>>)
          IN  (key # <<>> /\ ~coerceValues /\ (spaceBeforeQuote \/ spaceAfterQuote))
                 => /\ ~inMultiline'
                    /\ ~wasMultiline'
                    /\ key \in DOMAIN Emitted'
                    /\ Emitted'[key] = StrVal(Trim(text))
      ]_vars

C40_Witness ==
    /\ ppc = "returned"
    /\ ~coerceValues
    /\ lines = <<<<"K", "=", " ", Quote, "a", "\\", Quote, "b", Quote>>,
                 <<"K", "=", Quote, "a", Quote, " ">>,
                 <<"K", "=", " ", Quote, Quote, Quote>>>>
    /\ branches = <<"key", "key", "key">>
    /\ envVars = (KeyK :> StrVal(<<Quote, Quote, Quote>>))

\* ------------------------------------------------ properties: frame of a load
\* The step settles a read that failed.
ReadFails == \E r \in inFlight \ inFlight' : reads[r].path \notin DOMAIN fileSystem

\* The keys bound in process.env before or after the step.
StoreKeys == (DOMAIN processEnv) \cup (DOMAIN processEnv')

\* C39: the load of a file changes only the bindings of the keys its
\* ParseResult defines, every other key keeps its binding; a load whose read
\* fails changes no binding, and the bindings of the files loaded before it
\* stay as those files made them; no other step of a call changes a binding.
C39_FrameOfALoad ==
    [][ /\ Merged =>
              \A key \in StoreKeys \ DOMAIN Last(loaded').result :
                  /\ key \in DOMAIN processEnv
                  /\ key \in DOMAIN processEnv'
                  /\ processEnv'[key] = processEnv[key]
        /\ ReadFails =>
              /\ ~Merged
              /\ processEnv' = processEnv
              /\ parsedValues' = parsedValues
              /\ \A key \in LoadedKeys :
                     /\ key \in DOMAIN processEnv'
                     /\ processEnv'[key] = StringOf(loaded[LatestDefining(key)].result[key])
        /\ ~Merged => processEnv' = processEnv
      ]_vars

C39_Witness ==
    /\ pc = "rejected"
    /\ Len(loaded) = 1
    /\ Len(reads) = 2
    /\ ReadFailed(2)
    /\ KeyK \in DOMAIN loaded[1].result
    /\ processEnv[KeyK] = StringOf(loaded[1].result[KeyK])
    /\ processEnv[KeyK] # <<"o", "l", "d">>
    /\ DOMAIN processEnv # DOMAIN loaded[1].result

\* ------------------------------------------ two sessions on one process.env
\* Two calls of the static load run in one process: process.env and the default
\* logger are shared, each call has its own instance. Here the per-instance
\* variables (options, coerceValues, parsedValues, pc, idx, outcome) are functions
\* of the session, and the histories name the session of each read and merge.
Sessions == {1, 2}

\* The files on disk: two define K, one does not; none sets PROFILES.
RaceFileSystem ==
    (EnvPath :> Text(<<LineKBase>>)) @@ (PathB :> Text(<<LineKB>>))
        @@ (ProfilePath(ProfileP) :> Text(<<LineJNum>>))

RacePaths == DOMAIN RaceFileSystem

RaceOptions(paths) ==
    [entry |-> "load", hasFilepaths |-> TRUE, filepaths |-> paths, hasSchema |-> TRUE,
     schema |-> {<<"K">>}]

\* The first session names up to MaxFiles files, the second one file.
RaceInit ==
    /\ ParserIdle
    /\ ppc = "idle"
    /\ coerceValues \in [Sessions -> BOOLEAN]
    /\ parsedValues = [s \in Sessions |-> <<>>]
    /\ processEnv = <<>>
    /\ options \in {[s \in Sessions |-> IF s = 1 THEN RaceOptions(f) ELSE RaceOptions(<<g>>)] :
                        f \in SeqsUpTo(RacePaths, MaxFiles), g \in RacePaths}
    /\ fileSystem = RaceFileSystem
    /\ pc = [s \in Sessions |-> "explicit"]
    /\ idx = [s \in Sessions |-> 0]
    /\ profiles = Undefined
    /\ inFlight = {}
    /\ reads = <<>>
    /\ log = <<>>
    /\ loaded = <<>>
    /\ selector = NULL
    /\ outcome = [s \in Sessions |-> Pending]
    /\ extraLoads = 0

\* A slip: get validates the instance's own mapping whatever the flag says.
SessionEnvDataOwn(s) == parsedValues[s]

\* envData of get in session s.
SessionEnvData(s) ==
    IF coerceValues[s] THEN parsedValues[s]
    ELSE [k \in DOMAIN processEnv |-> StrVal(processEnv[k])]

\* get(schema) in session s.
SessionGet(s, logNow) ==
    LET result == SafeParse(options[s].schema, SessionEnvData(s))
    IN  IF result.success
        THEN [log |-> logNow, threw |-> FALSE, value |-> result.data]
        ELSE [log |-> Append(logNow, Error(toPrettyZodError(result.issues))),
              threw |-> TRUE, value |-> toPrettyZodError(result.issues)]

\* initialize of a session resumes and calls load for its next file, which logs
\* and suspends at `await fs.readFile`.
RaceStart ==
    \E s \in Sessions :
        /\ pc[s] = "explicit"
        /\ idx[s] < Len(options[s].filepaths)
        /\ LET path == PathOf(options[s].filepaths[idx[s] + 1])
           IN  /\ log' = Append(log, Info(LoadingMsg(path)))
               /\ reads' = Append(reads, [path |-> path, phase |-> "explicit", session |-> s])
        /\ inFlight' = inFlight \cup {Len(reads) + 1}
        /\ idx' = [idx EXCEPT ![s] = idx[s] + 1]
        /\ pc' = [pc EXCEPT ![s] = "reading"]
        /\ UNCHANGED <<parserVars, coerceValues, parsedValues, processEnv, options, fileSystem,
                       profiles, loaded, selector, outcome, extraLoads>>

\* A read resolves: its session parses the file and merges the result into the
\* shared process.env and its own mapping; load returns.
RaceReadResolves ==
    \E r \in inFlight :
        /\ reads[r].path \in DOMAIN fileSystem
        /\ LET s == reads[r].session
               result == parseEnvFile(Split(fileSystem[reads[r].path], "\n"), coerceValues[s])
           IN  /\ processEnv' = MergeEnv(processEnv, result)
               /\ parsedValues' = [parsedValues EXCEPT ![s] = MergeParsed(parsedValues[s], result)]
               /\ loaded' = Append(loaded, [read |-> r, path |-> reads[r].path,
                                            phase |-> reads[r].phase, result |-> result,
                                            session |-> s])
               /\ pc' = [pc EXCEPT ![s] = "explicit"]
        /\ inFlight' = inFlight \ {r}
        /\ UNCHANGED <<parserVars, coerceValues, options, fileSystem, idx, profiles,
                       reads, log, selector, outcome, extraLoads>>

\* initialize of a session resumes after its last file: PROFILES selects
\* nothing, the mapping is validated, initialize returns or throws.
RaceFinish ==
    \E s \in Sessions :
        /\ pc[s] = "explicit"
        /\ idx[s] = Len(options[s].filepaths)
        /\ ~HasProfiles(ProfileNames(processEnv))
        /\ LET validated ==
                   SessionGet(s, Append(log, Info(<<"Validating environment variables">>)))
           IN  /\ log' = validated.log
               /\ IF validated.threw
                  THEN /\ pc' = [pc EXCEPT ![s] = "rejected"]
                       /\ outcome' = [outcome EXCEPT ![s] =
                                        [status |-> "rejected", value |-> validated.value,
                                         merges |-> Len(loaded)]]
                  ELSE /\ pc' = [pc EXCEPT ![s] = "initialized"]
                       /\ outcome' = outcome
        /\ UNCHANGED <<parserVars, coerceValues, parsedValues, processEnv, options, fileSystem,
                       idx, profiles, inFlight, reads, loaded, selector, extraLoads>>

\* The static load of a session resumes after initialize and returns
\* dotenv.get(options.schema); `merges` records how many files were merged by then.
RaceReturn ==
    \E s \in Sessions :
        /\ pc[s] = "initialized"
        /\ LET got == SessionGet(s, log)
           IN  /\ log' = got.log
               /\ pc' = [pc EXCEPT ![s] = IF got.threw THEN "rejected" ELSE "resolved"]
               /\ outcome' = [outcome EXCEPT ![s] =
                                [status |-> IF got.threw THEN "rejected" ELSE "resolved",
                                 value |-> got.value, merges |-> Len(loaded)]]
        /\ UNCHANGED <<parserVars, coerceValues, parsedValues, processEnv, options, fileSystem,
                       idx, profiles, inFlight, reads, loaded, selector, extraLoads>>

RaceNext ==
    \/ RaceStart
    \/ RaceReadResolves
    \/ RaceFinish
    \/ RaceReturn

SpecRace == RaceInit /\ [][RaceNext]_vars

\* ----------------------------------------------- properties: two sessions
\* The merges among the first n that define the key, by any session and by s.
DefiningAmong(key, n) == {i \in 1..n : key \in DOMAIN loaded[i].result}

OwnDefiningAmong(s, key, n) == {i \in DefiningAmong(key, n) : loaded[i].session = s}

LatestOf(merges) == CHOOSE i \in merges : \A j \in merges : j <= i

\* C37: two sessions that run concurrently share process.env and race on it.
\* The store binds K to the value of the file merged last by either session, and
\* a session without coercion returns for K the store's value at its return,
\* the value of the last merge of either session and not of its own last file;
\* a session with coercion returns the value of its own last file defining K.
C37_SessionsShareTheStore ==
    /\ KeyK \in LoadedKeys =>
           /\ KeyK \in DOMAIN processEnv
           /\ processEnv[KeyK] = StringOf(loaded[LatestDefining(KeyK)].result[KeyK])
    /\ \A s \in Sessions :
           outcome[s].status = "resolved" =>
               LET n == outcome[s].merges
               IN  /\ KeyK \in DOMAIN outcome[s].value
                   /\ IF coerceValues[s]
                      THEN /\ OwnDefiningAmong(s, KeyK, n) # {}
                           /\ outcome[s].value[KeyK]
                                  = loaded[LatestOf(OwnDefiningAmong(s, KeyK, n))].result[KeyK]
                      ELSE /\ DefiningAmong(KeyK, n) # {}
                           /\ outcome[s].value[KeyK]
                                  = StrVal(StringOf(
                                        loaded[LatestOf(DefiningAmong(KeyK, n))].result[KeyK]))

\* The race: session 1, without coercion, loaded K=base and then a file without
\* K; session 2 merged K=b in between, and session 1 returns b.
C37_Witness ==
    /\ outcome[1].status = "resolved"
    /\ ~coerceValues[1]
    /\ options[1].filepaths = <<EnvPath, ProfilePath(ProfileP)>>
    /\ options[2].filepaths = <<PathB>>
    /\ Len(loaded) = 3
    /\ loaded[1].session = 1 /\ loaded[2].session = 2 /\ loaded[3].session = 1
    /\ loaded[1].result[KeyK] = StrVal(<<"b", "a", "s", "e">>)
    /\ loaded[2].result[KeyK] = StrVal(<<"b">>)
    /\ KeyK \notin DOMAIN loaded[3].result
    /\ loaded[3].read < loaded[2].read
    /\ outcome[1].value[KeyK] = StrVal(<<"b">>)
    /\ processEnv[KeyK] = <<"b">>

====
